---- MODULE Spec2Model ----
(***************************************************************************)
(* Control logic of HomeAutomationRemote.ino: the page/navigation state    *)
(* machine driven by touch events, the thermostat loop run by the          *)
(* one-second tick of loop(), and the collaborators they call.             *)
(*                                                                         *)
(* Handlers are sequential C++ code, so each one is written as a function  *)
(* from a program-state record to a program-state record (the state after  *)
(* the handler returns); an action applies one handler to the current      *)
(* state and commits the result.                                           *)
(*                                                                         *)
(* Temperatures are integers in units of 1/Deg of a degree Celsius, with   *)
(* Deg a multiple of 100 * AVERAGE_MAX, so that the sensor offset          *)
(* (percent) and the rolling mean (sum / AVERAGE_MAX) are exact.           *)
(***************************************************************************)
EXTENDS Integers, Sequences, FiniteSets, TLC

\* ------------------------------------------------------------------------
\* Program constants
\* ------------------------------------------------------------------------
IDLE_TIME == 6
THERMOSTAT_HYSTERESIS == 20
THERMOSTAT_OFFSET == 0 - 14
AVERAGE_MAX == 20
SWBTN_TOP_Y == 20
SWBTN_WIDTH == 160
SWBTN_HEIGHT == 55

kPage_Home == 0
kPage_Config == 1
kPage_Forecast24H == 2
kPage_Forecast5D == 3
kPage_Switches == 4
kPage_Thermostat == 5
kPage_Auth == 6

\* setup() stores -1 into the unsigned int Page when Wi-Fi is down: the
\* largest unsigned value (2^32 - 1 on the target).  The model checker's
\* integers are 32-bit signed, so the model uses the largest of those; Page
\* is only compared with the page numbers 0..6, and both values are above
\* them all.
kPage_None == 2147483647

\* units per degree Celsius
Deg == 100 * AVERAGE_MAX
HalfDeg == Deg \div 2
TEMP_MIN == 15 * Deg
TEMP_MAX == 30 * Deg
TEMP_DEFAULT == 20 * Deg

\* ------------------------------------------------------------------------
\* Bounds of the exploration
\* ------------------------------------------------------------------------
\* number of setpoint steps explored around each anchor setpoint
MaxDrift == 1

\* number of values given to the rolling average, and number of times two
\* consecutive values differ
MaxSamples == 22
MaxChanges == 2

\* number of runs of the body of Get5DForecast
MaxAttempts == 4

\* number of times the 5-day page asks for its forecast between two restarts
MaxFetches == 2

\* number of dt values given to the listener after the regular part of the
\* stream
MaxItems == 2

\* ------------------------------------------------------------------------
\* Pure helpers
\* ------------------------------------------------------------------------
\* variant: rectangles that only touch count as intersecting
isIntersect_Touching(Ax, Ay, Aw, Ah, Bx, By, Bw, Bh) ==
    /\ Bx + Bw >= Ax
    /\ By + Bh >= Ay
    /\ Ax + Aw >= Bx
    /\ Ay + Ah >= By

isIntersect(Ax, Ay, Aw, Ah, Bx, By, Bw, Bh) ==
    /\ Bx + Bw > Ax
    /\ By + Bh > Ay
    /\ Ax + Aw > Bx
    /\ Ay + Ah > By

\* float: a value is kept with 24 significant bits.  Values are integers
\* (multiples of the unit in use); Ulp(a, q) is the spacing of the floats
\* around a >= 0 and F32(v) the float nearest to v, ties to the even one.
RECURSIVE Ulp(_, _)
Ulp(a, q) == IF a \div q < 16777216 THEN q ELSE Ulp(a, 2 * q)

F32(v) ==
    LET a    == IF v < 0 THEN 0 - v ELSE v
        q    == Ulp(a, 1)
        r    == a % q
        base == a - r
        res  == IF 2 * r < q THEN base
                ELSE IF 2 * r > q THEN base + q
                ELSE IF (base \div q) % 2 = 0 THEN base ELSE base + q
    IN  IF v < 0 THEN 0 - res ELSE res

\* CalcAverage
AvgInit == [readings |-> [i \in 0 .. (AVERAGE_MAX - 1) |-> 0], sum |-> 0, cnt |-> 0]

AddValue(a, in) ==
    [readings |-> [a.readings EXCEPT ![a.cnt] = in],
     sum      |-> F32(F32(a.sum - a.readings[a.cnt]) + in),
     cnt      |-> IF a.cnt + 1 >= AVERAGE_MAX THEN 0 ELSE a.cnt + 1]

\* variant: the mean of the values added so far, while the buffer fills
GetAverage_ByCount(a) == a.sum \div (IF a.cnt = 0 THEN AVERAGE_MAX ELSE a.cnt)

GetAverage(a) == a.sum \div AVERAGE_MAX

\* ReadDHT11: dht.err is the outcome of dht11.read, dht.temp and dht.humi
\* the bytes read
DHTReading(temp) == ((temp * Deg) \div 100) * (100 + THERMOSTAT_OFFSET)
\* (float)humi, in the units of the filter
DHTHumidity(humi) == humi * Deg

\* variant: a failed read gives the two bytes, still zero, to the filters
ReadDHT11_AddsOnFailure(s, dht) ==
    [s EXCEPT !.TempAverage = AddValue(s.TempAverage, DHTReading(dht.temp)),
              !.HumiAverage = AddValue(s.HumiAverage, DHTHumidity(dht.humi))]

ReadDHT11(s, dht) ==
    IF dht.err THEN s
    ELSE [s EXCEPT !.TempAverage = AddValue(s.TempAverage, DHTReading(dht.temp)),
                   !.HumiAverage = AddValue(s.HumiAverage, DHTHumidity(dht.humi))]

\* ------------------------------------------------------------------------
\* Collaborators (stubs in the source, bodies supplied by the integrator)
\* ------------------------------------------------------------------------
\* DoSwitch(button): sends the command for one switch; the commands sent by
\* the handler that is running are recorded in s.sent
DoSwitch(s, button) == [s EXCEPT !.sent = Append(s.sent, button)]

\* GetSwitchConfig(): assigns Switch[0..7] from the server's answer cfg and
\* returns true
GetSwitchConfig(s, cfg) == [s EXCEPT !.Switch = cfg]

\* ------------------------------------------------------------------------
\* Pages
\* ------------------------------------------------------------------------
\* UpdateHomePage: refreshes the global Temperature from the rolling mean
UpdateHomePage(s) == [s EXCEPT !.Temperature = GetAverage(s.TempAverage)]

LoginPage(s) == [s EXCEPT !.pinEntry = <<>>]

\* draw_screen: the forecast pages change nothing else of this state; the
\* runs of Get5DForecast that Show5DForecast starts are the steps of
\* SpecForecast
draw_screen(s, pg, cfg) ==
    LET s1 == [s EXCEPT !.Page = pg]
    IN  CASE pg = kPage_Home     -> UpdateHomePage(s1)
          [] pg = kPage_Auth     -> LoginPage(s1)
          [] pg = kPage_Switches ->
                 GetSwitchConfig([s1 EXCEPT !.Confirm = [Wait |-> FALSE, Button |-> 0 - 1]], cfg)
          [] OTHER               -> s1

\* ------------------------------------------------------------------------
\* Login
\* ------------------------------------------------------------------------
\* String(n) for a non-negative int n, as a sequence of decimal digits
RECURSIVE IntToStr(_)
IntToStr(n) == IF n < 10 THEN <<n>> ELSE Append(IntToStr(n \div 10), n % 10)

\* variant: the entry is kept as the credential whatever the server answers
CheckLogin_KeepsEntry(s0, http, cfg) ==
    LET s == [s0 EXCEPT !.login = http, !.PIN = s0.pinEntry]
    IN  IF http = "1" THEN draw_screen(s, kPage_Switches, cfg)
        ELSE draw_screen(s, kPage_Home, cfg)

\* CheckLogin: http is the body returned by getFromHTTP, recorded in s.login
CheckLogin(s0, http, cfg) ==
    LET s == [s0 EXCEPT !.login = http]
    IN  IF http = "TIMEOUT" \/ http = "OFFLINE" THEN draw_screen(s, kPage_Home, cfg)
        ELSE IF http = "1" THEN draw_screen([s EXCEPT !.PIN = s.pinEntry], kPage_Switches, cfg)
        ELSE draw_screen(s, kPage_Home, cfg)

\* variant: a digit is appended whatever the length of the entry
RECURSIVE KeypadRow_Unbounded(_, _, _, _)
KeypadRow_Unbounded(p, r, c, acc) ==
    IF c >= 5 THEN acc
    ELSE IF isIntersect(p.x, p.y, 1, 1, c * 64, 110 + r * 64, 64, 64)
         THEN [acc EXCEPT !.entry = acc.entry \o IntToStr(acc.n)]
         ELSE KeypadRow_Unbounded(p, r, c + 1, [acc EXCEPT !.n = acc.n + 1])

\* the inner loop over the 5 columns of one keypad row; acc = [n, entry].
\* A hit on a digit appends it and leaves the row only while the entry is
\* shorter than 4; otherwise the scan goes on and n keeps counting.
RECURSIVE KeypadRow(_, _, _, _)
KeypadRow(p, r, c, acc) ==
    IF c >= 5 THEN acc
    ELSE IF isIntersect(p.x, p.y, 1, 1, c * 64, 110 + r * 64, 64, 64) /\ Len(acc.entry) < 4
         THEN [acc EXCEPT !.entry = acc.entry \o IntToStr(acc.n)]
         ELSE KeypadRow(p, r, c + 1, [acc EXCEPT !.n = acc.n + 1])

TouchLogin(s, p, http, cfg) ==
    LET a0 == KeypadRow(p, 0, 0, [n |-> 0, entry |-> s.pinEntry])
        a1 == KeypadRow(p, 1, 0, a0)
        s1 == [s EXCEPT !.pinEntry = a1.entry]
    IN  IF isIntersect(p.x, p.y, 1, 1, 320 - 64 * 2, 30, 64 * 2, 64)
        THEN CheckLogin(s1, http, cfg)
        ELSE s1

\* ------------------------------------------------------------------------
\* Switches
\* ------------------------------------------------------------------------
\* the inner loop over the 2 columns of one row of buttons; acc = [s, button]
RECURSIVE ButtonRow(_, _, _, _)
ButtonRow(p, l, c, acc) ==
    IF c >= 2 THEN acc
    ELSE IF isIntersect(p.x, p.y, 1, 1, c * SWBTN_WIDTH, SWBTN_TOP_Y + l * SWBTN_HEIGHT,
                        SWBTN_WIDTH, SWBTN_HEIGHT)
         THEN [acc EXCEPT !.button = acc.s]
         ELSE ButtonRow(p, l, c + 1, [acc EXCEPT !.s = acc.s + 1])

FindButton(p) ==
    ButtonRow(p, 3, 0, ButtonRow(p, 2, 0, ButtonRow(p, 1, 0,
        ButtonRow(p, 0, 0, [s |-> 0, button |-> 0 - 1])))).button

\* Switch[button]; an index outside 0..7 reads memory outside the array,
\* whose content is oob
SwitchAt(s, button, oob) == IF button \in 0 .. 7 THEN s.Switch[button] ELSE oob

\* variant: without the return that ends the confirmation branch, a tap
\* that is neither YES nor NO goes on to the buttons under the dialog
TouchSwiches_FallThrough(s, p, cfg, oob) ==
    LET button == FindButton(p)
        sw     == SwitchAt(s, button, oob)
        yesno  == \/ isIntersect(p.x, p.y, 1, 1, 0, 120, 120, 120)
                  \/ isIntersect(p.x, p.y, 1, 1, 200, 120, 120, 120)
    IN  IF s.Confirm.Wait /\ yesno
        THEN IF isIntersect(p.x, p.y, 1, 1, 0, 120, 120, 120)
             THEN [draw_screen(s, kPage_Switches, cfg)
                      EXCEPT !.Confirm = [Wait |-> FALSE, Button |-> 0 - 1]]
             ELSE [draw_screen(DoSwitch(s, s.Confirm.Button), kPage_Switches, cfg)
                      EXCEPT !.Confirm = [Wait |-> FALSE, Button |-> 0 - 1]]
        ELSE IF sw.Hidden THEN s
             ELSE IF sw.AskConfirm
                  THEN [s EXCEPT !.Confirm = [Wait |-> TRUE, Button |-> button]]
                  ELSE DoSwitch(s, button)

\* variant: NO sends the command as YES does
TouchSwiches_NoSends(s, p, cfg, oob) ==
    IF s.Confirm.Wait
    THEN IF \/ isIntersect(p.x, p.y, 1, 1, 0, 120, 120, 120)
            \/ isIntersect(p.x, p.y, 1, 1, 200, 120, 120, 120)
         THEN [draw_screen(DoSwitch(s, s.Confirm.Button), kPage_Switches, cfg)
                  EXCEPT !.Confirm = [Wait |-> FALSE, Button |-> 0 - 1]]
         ELSE s
    ELSE LET button == FindButton(p)
             sw     == SwitchAt(s, button, oob)
         IN  IF sw.Hidden THEN s
             ELSE IF sw.AskConfirm
                  THEN [s EXCEPT !.Confirm = [Wait |-> TRUE, Button |-> button]]
                  ELSE DoSwitch(s, button)

\* variant: the NO answer goes back to the home page
TouchSwiches_NoGoesHome(s, p, cfg, oob) ==
    IF s.Confirm.Wait
    THEN LET s1 == IF isIntersect(p.x, p.y, 1, 1, 0, 120, 120, 120)
                   THEN [draw_screen(s, kPage_Home, cfg)
                            EXCEPT !.Confirm = [Wait |-> FALSE, Button |-> 0 - 1]]
                   ELSE s
             s2 == IF isIntersect(p.x, p.y, 1, 1, 200, 120, 120, 120)
                   THEN [draw_screen(DoSwitch(s1, s1.Confirm.Button), kPage_Switches, cfg)
                            EXCEPT !.Confirm = [Wait |-> FALSE, Button |-> 0 - 1]]
                   ELSE s1
         IN  s2
    ELSE LET button == FindButton(p)
             sw     == SwitchAt(s, button, oob)
         IN  IF sw.Hidden THEN s
             ELSE IF sw.AskConfirm
                  THEN [s EXCEPT !.Confirm = [Wait |-> TRUE, Button |-> button]]
                  ELSE DoSwitch(s, button)

TouchSwiches(s, p, cfg, oob) ==
    IF s.Confirm.Wait
    THEN LET s1 == IF isIntersect(p.x, p.y, 1, 1, 0, 120, 120, 120)
                   THEN [draw_screen(s, kPage_Switches, cfg)
                            EXCEPT !.Confirm = [Wait |-> FALSE, Button |-> 0 - 1]]
                   ELSE s
             s2 == IF isIntersect(p.x, p.y, 1, 1, 200, 120, 120, 120)
                   THEN [draw_screen(DoSwitch(s1, s1.Confirm.Button), kPage_Switches, cfg)
                            EXCEPT !.Confirm = [Wait |-> FALSE, Button |-> 0 - 1]]
                   ELSE s1
         IN  s2
    ELSE LET button == FindButton(p)
             sw     == SwitchAt(s, button, oob)
         IN  IF sw.Hidden THEN s
             ELSE IF sw.AskConfirm
                  THEN [s EXCEPT !.Confirm = [Wait |-> TRUE, Button |-> button]]
                  ELSE DoSwitch(s, button)

\* ------------------------------------------------------------------------
\* Thermostat page
\* ------------------------------------------------------------------------
\* variant: turning the thermostat off leaves the relay as it is
TouchThermostat_KeepRelay(s, p) ==
    IF isIntersect(p.x, p.y, 1, 1, 0, 30, 320, 60)
    THEN [s EXCEPT !.Thermostat.Status = ~s.Thermostat.Status]
    ELSE s

\* variant: the status button switches the thermostat on and never off
TouchThermostat_OnOnly(s, p) ==
    IF isIntersect(p.x, p.y, 1, 1, 0, 30, 320, 60)
    THEN [s EXCEPT !.Thermostat.Status = TRUE]
    ELSE s

\* variant: the plus button changes the setpoint and does not store it
TouchThermostat_PlusUnsaved(s, p) ==
    IF isIntersect(p.x, p.y, 1, 1, 0, 30, 320, 60)
    THEN LET on == ~s.Thermostat.Status
         IN  IF ~on
             THEN [s EXCEPT !.Thermostat.Status = on,
                            !.Thermostat.RelayStatus = FALSE,
                            !.relayPin = FALSE]
             ELSE [s EXCEPT !.Thermostat.Status = on]
    ELSE IF isIntersect(p.x, p.y, 1, 1, 0, 180, 120, 60)
    THEN IF s.Thermostat.Temp > TEMP_MIN
         THEN [s EXCEPT !.Thermostat.Temp = s.Thermostat.Temp - HalfDeg,
                        !.Store = s.Thermostat.Temp - HalfDeg]
         ELSE s
    ELSE IF isIntersect(p.x, p.y, 1, 1, 200, 180, 120, 60)
    THEN IF s.Thermostat.Temp < TEMP_MAX
         THEN [s EXCEPT !.Thermostat.Temp = s.Thermostat.Temp + HalfDeg]
         ELSE s
    ELSE s

TouchThermostat(s, p) ==
    IF isIntersect(p.x, p.y, 1, 1, 0, 30, 320, 60)
    THEN LET on == ~s.Thermostat.Status
         IN  IF ~on
             THEN [s EXCEPT !.Thermostat.Status = on,
                            !.Thermostat.RelayStatus = FALSE,
                            !.relayPin = FALSE]
             ELSE [s EXCEPT !.Thermostat.Status = on]
    ELSE IF isIntersect(p.x, p.y, 1, 1, 0, 180, 120, 60)
    THEN IF s.Thermostat.Temp > TEMP_MIN
         THEN [s EXCEPT !.Thermostat.Temp = s.Thermostat.Temp - HalfDeg,
                        !.Store = s.Thermostat.Temp - HalfDeg]
         ELSE s
    ELSE IF isIntersect(p.x, p.y, 1, 1, 200, 180, 120, 60)
    THEN IF s.Thermostat.Temp < TEMP_MAX
         THEN [s EXCEPT !.Thermostat.Temp = s.Thermostat.Temp + HalfDeg,
                        !.Store = s.Thermostat.Temp + HalfDeg]
         ELSE s
    ELSE s

\* ------------------------------------------------------------------------
\* Touch events
\* ------------------------------------------------------------------------
\* variant: a tap on the 24-hour forecast goes straight back to the home page
onClickPage_SkipForecast5D(s, p, http, cfg, oob) ==
    CASE s.Page = kPage_Home ->
             LET pg == IF isIntersect(p.x, p.y, 1, 1, 200, 170, 120, 70) THEN kPage_Thermostat
                       ELSE IF isIntersect(p.x, p.y, 1, 1, 0, 140, 200, 200) THEN kPage_Forecast24H
                       ELSE IF s.PIN # <<>> THEN kPage_Switches ELSE kPage_Auth
             IN  [draw_screen(s, pg, cfg) EXCEPT !.IdleTimer = IDLE_TIME]
      [] s.Page = kPage_Auth ->
             TouchLogin([s EXCEPT !.IdleTimer = IDLE_TIME], p, http, cfg)
      [] s.Page = kPage_Switches ->
             [TouchSwiches(s, p, cfg, oob) EXCEPT !.IdleTimer = IDLE_TIME]
      [] s.Page = kPage_Thermostat ->
             [TouchThermostat(s, p) EXCEPT !.IdleTimer = IDLE_TIME]
      [] s.Page = kPage_Forecast24H -> draw_screen(s, kPage_Home, cfg)
      [] s.Page = kPage_Forecast5D  -> draw_screen(s, kPage_Home, cfg)
      [] OTHER -> s

\* variant: a tap on the 5-day page opens the configuration page
onClickPage_OpensConfig(s, p, http, cfg, oob) ==
    CASE s.Page = kPage_Home ->
             LET pg == IF isIntersect(p.x, p.y, 1, 1, 200, 170, 120, 70) THEN kPage_Thermostat
                       ELSE IF isIntersect(p.x, p.y, 1, 1, 0, 140, 200, 200) THEN kPage_Forecast24H
                       ELSE IF s.PIN # <<>> THEN kPage_Switches ELSE kPage_Auth
             IN  [draw_screen(s, pg, cfg) EXCEPT !.IdleTimer = IDLE_TIME]
      [] s.Page = kPage_Auth ->
             TouchLogin([s EXCEPT !.IdleTimer = IDLE_TIME], p, http, cfg)
      [] s.Page = kPage_Switches ->
             [TouchSwiches(s, p, cfg, oob) EXCEPT !.IdleTimer = IDLE_TIME]
      [] s.Page = kPage_Thermostat ->
             [TouchThermostat(s, p) EXCEPT !.IdleTimer = IDLE_TIME]
      [] s.Page = kPage_Forecast24H -> draw_screen(s, kPage_Forecast5D, cfg)
      [] s.Page = kPage_Forecast5D  -> draw_screen(s, kPage_Config, cfg)
      [] OTHER -> s

\* the switch (Page) of onClick, reached when Wi-Fi is connected
onClickPage(s, p, http, cfg, oob) ==
    CASE s.Page = kPage_Home ->
             LET pg == IF isIntersect(p.x, p.y, 1, 1, 200, 170, 120, 70) THEN kPage_Thermostat
                       ELSE IF isIntersect(p.x, p.y, 1, 1, 0, 140, 200, 200) THEN kPage_Forecast24H
                       ELSE IF s.PIN # <<>> THEN kPage_Switches ELSE kPage_Auth
             IN  [draw_screen(s, pg, cfg) EXCEPT !.IdleTimer = IDLE_TIME]
      [] s.Page = kPage_Auth ->
             TouchLogin([s EXCEPT !.IdleTimer = IDLE_TIME], p, http, cfg)
      [] s.Page = kPage_Switches ->
             [TouchSwiches(s, p, cfg, oob) EXCEPT !.IdleTimer = IDLE_TIME]
      [] s.Page = kPage_Thermostat ->
             [TouchThermostat(s, p) EXCEPT !.IdleTimer = IDLE_TIME]
      [] s.Page = kPage_Forecast24H -> draw_screen(s, kPage_Forecast5D, cfg)
      [] s.Page = kPage_Forecast5D  -> draw_screen(s, kPage_Home, cfg)
      [] OTHER -> s

\* variant: every tap restarts the device
ClickRestarts_Always(connected) == TRUE

\* the test that opens onClick: a tap restarts the device when Wi-Fi is not
\* connected
ClickRestarts(connected) == ~connected

\* variant: a long press restarts the device from every page
LongClickRestarts_AnyPage(s) == s.Page >= kPage_Home

\* the test of onLongClick; Page is unsigned
LongClickRestarts(s) == s.Page <= kPage_Home

\* ------------------------------------------------------------------------
\* Weather: the 5-day forecast
\* ------------------------------------------------------------------------
\* temperatures are whole degrees; humidities are eighths of a percent, so
\* that avg_humi / 8.f is exact
Pct(p) == 8 * p

\* the value that marks a field of Forecast5D as empty
EMPTY_FIELD == 1000
\* the number of items of a complete forecast
OWM_ITEMS == 40

\* Forecast5D[6] in RAM after a reset
Weather5DZero ==
    [temp |-> [h \in 0 .. 7 |-> 0], humi |-> [h \in 0 .. 7 |-> 0],
     tmin |-> 0, tmax |-> 0, avgh |-> 0, icon |-> "", nday |-> 0,
     LastTimeUpdated |-> 0]
Forecast5DZero == [d \in 0 .. 5 |-> Weather5DZero]

\* Get5DForecast, "Reset forecast memory": LastTimeUpdated is kept
ResetForecast(F) ==
    [d \in 0 .. 5 |->
        [F[d] EXCEPT !.tmin = EMPTY_FIELD, !.tmax = EMPTY_FIELD,
                     !.avgh = Pct(EMPTY_FIELD), !.nday = 0, !.icon = "",
                     !.temp = [h \in 0 .. 7 |-> EMPTY_FIELD],
                     !.humi = [h \in 0 .. 7 |-> Pct(EMPTY_FIELD)]]]

\* OWMListener::Init; _hour is not set by it: a listener is a local object
\* of Get5DForecast, and hour0 is what its memory holds
OWMListenerInit(hour0) == [d |-> 0 - 1, h |-> 0, prev_day |-> 0 - 1, _count |-> 0, _hour |-> hour0]

\* OWMListener::value for the keys it reads; st = [F, L, oob] is Forecast5D,
\* the listener and whether a write has fallen outside Forecast5D[6] or
\* temp[8] / humi[8] (the code does not test d and h)
InForecast(L) == L.d \in 0 .. 5 /\ L.h \in 0 .. 7

OWMListenerValue(st, key, v) ==
    LET L == st.L
    IN  CASE key = "dt" ->
                 LET _day == ((v \div 86400) + 4) % 7
                     L1   == [L EXCEPT !._count = L._count + 1,
                                       !._hour = (v % 86400) \div 3600]
                 IN  IF L.prev_day # _day
                     THEN LET L2 == [L1 EXCEPT !.d = L.d + 1, !.h = 0, !.prev_day = _day]
                          IN  IF L2.d \in 0 .. 5
                              THEN [st EXCEPT !.L = L2, !.F[L2.d].nday = _day]
                              ELSE [st EXCEPT !.L = L2, !.oob = TRUE]
                     ELSE [st EXCEPT !.L = [L1 EXCEPT !.h = L.h + 1]]
          [] key = "temp" ->
                 IF InForecast(L) THEN [st EXCEPT !.F[L.d].temp[L.h] = v]
                 ELSE [st EXCEPT !.oob = TRUE]
          [] key = "humidity" ->
                 IF InForecast(L) THEN [st EXCEPT !.F[L.d].humi[L.h] = v]
                 ELSE [st EXCEPT !.oob = TRUE]
          [] key = "icon" ->
                 IF L._hour # 12 THEN st
                 ELSE IF L.d \in 0 .. 5 THEN [st EXCEPT !.F[L.d].icon = v]
                 ELSE [st EXCEPT !.oob = TRUE]
          [] OTHER -> st

\* the stores into Forecast5D that OWMListener::value makes for one value,
\* L being the listener before it: the field written and the indices d and h
\* used (h is 0 for nday and icon, which are not arrays)
OWMListenerStores(L, key, v) ==
    CASE key = "dt" ->
             IF L.prev_day # ((v \div 86400) + 4) % 7
             THEN <<[field |-> "nday", d |-> L.d + 1, h |-> 0]>>
             ELSE <<>>
      [] key = "temp"     -> <<[field |-> "temp", d |-> L.d, h |-> L.h]>>
      [] key = "humidity" -> <<[field |-> "humi", d |-> L.d, h |-> L.h]>>
      [] key = "icon" ->
             IF L._hour = 12 THEN <<[field |-> "icon", d |-> L.d, h |-> 0]>> ELSE <<>>
      [] OTHER -> <<>>

\* the values of one item of the list, in the order of the stream
ParseItem(st, item) ==
    OWMListenerValue(OWMListenerValue(OWMListenerValue(OWMListenerValue(st,
        "dt", item.dt), "temp", item.temp), "humidity", item.humi), "icon", item.icon)

\* parser.parse over the stream, from item i on; what follows a write
\* outside Forecast5D is not followed
RECURSIVE ParseStream(_, _, _)
ParseStream(st, stream, i) ==
    IF st.oob \/ i > Len(stream) THEN st
    ELSE ParseStream(ParseItem(st, stream[i]), stream, i + 1)

\* the scan of the 8 slots of one day; acc = [min, max, humi]
RECURSIVE ScanDay(_, _, _)
ScanDay(b, h, acc) ==
    IF h >= 8 THEN acc
    ELSE IF b.temp[h] = EMPTY_FIELD THEN ScanDay(b, h + 1, acc)
    ELSE ScanDay(b, h + 1,
             [min  |-> IF b.temp[h] < acc.min THEN b.temp[h] ELSE acc.min,
              max  |-> IF b.temp[h] > acc.max THEN b.temp[h] ELSE acc.max,
              humi |-> IF b.humi[h] # Pct(EMPTY_FIELD) THEN acc.humi + b.humi[h]
                       ELSE acc.humi])

\* variant: the mean humidity of the slots that hold a value
DailyValues_MeanOfPresent(F) ==
    [d \in 0 .. 5 |->
        LET a == ScanDay(F[d], 0, [min |-> 100, max |-> 0 - 100, humi |-> 0])
            n == Cardinality({h \in 0 .. 7 : F[d].temp[h] # EMPTY_FIELD
                                               /\ F[d].humi[h] # Pct(EMPTY_FIELD)})
        IN  [F[d] EXCEPT !.tmin = a.min, !.tmax = a.max,
                         !.avgh = IF n = 0 THEN 0 ELSE a.humi \div n]]

\* Get5DForecast, "Calculate daily min & max temperatures", for the 6 days
DailyValues(F) ==
    [d \in 0 .. 5 |->
        LET a == ScanDay(F[d], 0, [min |-> 100, max |-> 0 - 100, humi |-> 0])
        IN  [F[d] EXCEPT !.tmin = a.min, !.tmax = a.max, !.avgh = a.humi \div 8]]

\* variant: a short stream is kept and its days are computed
Get5DForecast_AcceptsShort(F, conn, stream, hour0, now) ==
    LET st0 == [F |-> ResetForecast(F), L |-> OWMListenerInit(hour0), oob |-> FALSE]
    IN  IF conn # "stream" THEN st0 @@ [again |-> FALSE]
        ELSE LET st == ParseStream(st0, stream, 1)
             IN  [st EXCEPT !.F = [DailyValues(st.F) EXCEPT ![0].LastTimeUpdated = now]]
                     @@ [again |-> FALSE]

\* one run of the body of Get5DForecast.  conn is what the connection does:
\* "refused" (client.connect fails), "timeout" (no byte within 2 s) or
\* "stream" (the list arrives and is parsed to its end); now is
\* timeClient.getEpochTime().  again tells that the body ends in the call
\* Get5DForecast() of line 1051.
Get5DForecast(F, conn, stream, hour0, now) ==
    LET st0 == [F |-> ResetForecast(F), L |-> OWMListenerInit(hour0), oob |-> FALSE]
    IN  IF conn # "stream" THEN st0 @@ [again |-> FALSE]
        ELSE LET st == ParseStream(st0, stream, 1)
             IN  IF st.L._count # OWM_ITEMS THEN st @@ [again |-> TRUE]
                 ELSE [st EXCEPT !.F = [DailyValues(st.F) EXCEPT ![0].LastTimeUpdated = now]]
                          @@ [again |-> FALSE]

\* ------------------------------------------------------------------------
\* Weather: the current weather, the 24-hour forecast and the clock
\* ------------------------------------------------------------------------
\* The weather handlers are functions of a record W = [WeatherForecast,
\* Forecast24H, Forecast5D, listener, nowTime, calls] and of what the
\* handler finds outside: e = [now, net], with now the value of
\* timeClient.getEpochTime() and net what the network does with a request
\* ("ok", "timeout" or "offline").  calls lists the requests the running
\* handler has made, each with the age of the series when it was made.

\* the list OpenWeatherMap sends: n items 3 hours apart, the first at t0,
\* with temperatures between base - 5 and base + 13
OWMStream(t0, n, base) ==
    [i \in 1 .. n |-> [dt   |-> t0 + (i - 1) * 10800,
                       temp |-> base + ((7 * i) % 19) - 5,
                       humi |-> Pct(35 + ((11 * i) % 60)),
                       icon |-> "01d"]]

\* the list sent at the time now with cnt = n: it starts at the next
\* multiple of 3 hours and its temperatures move with the half hour
OWMListAt(now, n) == OWMStream(now - (now % 10800) + 10800, n, (now \div 1800) % 10)

\* getFromHTTP for the forecast URL with cnt = n: the text returned, and
\* the list that deserializeJson finds in it
getFromHTTP(e, n) ==
    CASE e.net = "timeout" -> [text |-> "TIMEOUT", list |-> <<>>]
      [] e.net = "offline" -> [text |-> "OFFLINE", list |-> <<>>]
      [] OTHER             -> [text |-> "JSON", list |-> OWMListAt(e.now, n)]

OWM_UDPATE_FREQ == 3600

\* "HH:MM" of the clock, as the minute of the day; nowTime = "" is NoTime
NoTime == 0 - 1
ClockText(now) == (now \div 60) % 1440

WeatherDataZero == [temp |-> 0, humi |-> 0, iconID |-> "", LastTimeUpdated |-> 0]
Weather24HZero == [temp |-> 0, timestamp |-> 0, icon |-> "", LastTimeUpdated |-> 0]
Forecast24HZero == [h \in 0 .. 7 |-> Weather24HZero]

Called(W, series, age, e) ==
    [W EXCEPT !.calls = Append(W.calls, [series |-> series, age |-> age, net |-> e.net])]

\* variant: the time of the update is taken also when the request fails
getOpenWeatherMap_StampsFailure(W0, e) ==
    LET W      == Called(W0, "current", e.now - W0.WeatherForecast.LastTimeUpdated, e)
        result == getFromHTTP(e, 1)
    IN  IF result.text = "TIMEOUT" \/ result.text = "OFFLINE"
        THEN [W EXCEPT !.WeatherForecast.LastTimeUpdated = e.now]
        ELSE [W EXCEPT !.WeatherForecast =
                  [temp |-> result.list[1].temp, humi |-> result.list[1].humi,
                   iconID |-> result.list[1].icon, LastTimeUpdated |-> e.now]]

getOpenWeatherMap(W0, e) ==
    LET W      == Called(W0, "current", e.now - W0.WeatherForecast.LastTimeUpdated, e)
        result == getFromHTTP(e, 1)
    IN  IF result.text = "TIMEOUT" \/ result.text = "OFFLINE" THEN W
        ELSE [W EXCEPT !.WeatherForecast =
                  [temp |-> result.list[1].temp, humi |-> result.list[1].humi,
                   iconID |-> result.list[1].icon, LastTimeUpdated |-> e.now]]

Get24HForecast(W0, e) ==
    LET W      == Called(W0, "24h", e.now - W0.Forecast24H[0].LastTimeUpdated, e)
        result == getFromHTTP(e, 8)
    IN  IF result.text = "TIMEOUT" \/ result.text = "OFFLINE" THEN W
        ELSE [W EXCEPT !.Forecast24H =
                  [h \in 0 .. 7 |->
                      [temp |-> result.list[h + 1].temp, timestamp |-> result.list[h + 1].dt,
                       icon |-> result.list[h + 1].icon,
                       LastTimeUpdated |-> IF h = 0 THEN e.now
                                           ELSE W.Forecast24H[h].LastTimeUpdated]]]

\* UpdateStatusBar; waiting is Confirm.Wait
UpdateStatusBar(W, waiting, e) ==
    IF waiting THEN W ELSE [W EXCEPT !.nowTime = ClockText(e.now)]

\* variant: the 24-hour forecast is fetched every time the page is drawn
Show24HForecast_Always(W, waiting, e) ==
    UpdateStatusBar(Get24HForecast(W, e), waiting, e)

Show24HForecast(W, waiting, e) ==
    LET W1 == IF e.now - W.Forecast24H[0].LastTimeUpdated >= OWM_UDPATE_FREQ
              THEN Get24HForecast(W, e) ELSE W
    IN  UpdateStatusBar(W1, waiting, e)

\* Get5DForecast as Show5DForecast calls it, for a network that sends the
\* complete list or none
Get5DForecastWeather(W0, e) ==
    LET W == Called(W0, "5d", e.now - W0.Forecast5D[0].LastTimeUpdated, e)
        r == Get5DForecast(W.Forecast5D,
                           CASE e.net = "timeout" -> "timeout"
                             [] e.net = "offline" -> "refused"
                             [] OTHER             -> "stream",
                           OWMListAt(e.now, OWM_ITEMS), 0, e.now)
    IN  [W EXCEPT !.Forecast5D = r.F, !.listener = r.L]

Show5DForecastWeather(W, waiting, e) ==
    LET W1 == IF e.now - W.Forecast5D[0].LastTimeUpdated >= OWM_UDPATE_FREQ
              THEN Get5DForecastWeather(W, e) ELSE W
    IN  UpdateStatusBar(W1, waiting, e)

\* UpdateHomePage, "Update time every minute"
UpdateHomePageWeather(W, e) ==
    IF W.nowTime # ClockText(e.now)
    THEN LET W1 == [W EXCEPT !.nowTime = ClockText(e.now)]
         IN  IF e.now - W1.WeatherForecast.LastTimeUpdated >= OWM_UDPATE_FREQ
             THEN getOpenWeatherMap(W1, e) ELSE W1
    ELSE W

\* draw_screen(pg): what it does to the clock text and the weather
draw_screenWeather(W0, pg, waiting, e) ==
    LET W == [W0 EXCEPT !.nowTime = NoTime]
    IN  CASE pg = kPage_Home        -> UpdateHomePageWeather(W, e)
          [] pg = kPage_Auth        -> UpdateStatusBar(W, waiting, e)
          [] pg = kPage_Switches    -> UpdateStatusBar(W, FALSE, e)
          [] pg = kPage_Thermostat  -> UpdateStatusBar(W, waiting, e)
          [] pg = kPage_Forecast24H -> Show24HForecast(W, waiting, e)
          [] pg = kPage_Forecast5D  -> Show5DForecastWeather(W, waiting, e)
          [] OTHER                  -> W

\* onClick with Wi-Fi connected: s0 is the program state the tap at p finds
\* and s1 the state it leaves; the pages that call draw_screen for this tap
onClickWeather(W, s0, s1, p, e) ==
    LET drawn ==
            CASE s0.Page \in {kPage_Home, kPage_Forecast24H, kPage_Forecast5D} -> TRUE
              [] s0.Page = kPage_Auth ->
                     isIntersect(p.x, p.y, 1, 1, 320 - 64 * 2, 30, 64 * 2, 64)
              [] s0.Page = kPage_Switches ->
                     /\ s0.Confirm.Wait
                     /\ \/ isIntersect(p.x, p.y, 1, 1, 0, 120, 120, 120)
                        \/ isIntersect(p.x, p.y, 1, 1, 200, 120, 120, 120)
              [] OTHER -> FALSE
    IN  IF drawn THEN draw_screenWeather(W, s1.Page, s0.Confirm.Wait, e) ELSE W

\* the tick of loop(): "Update screen informations" and the idle countdown;
\* s0 is the program state the tick finds
loopWeather(W, s0, e) ==
    LET W1 == IF s0.Page = kPage_Home THEN UpdateHomePageWeather(W, e)
              ELSE UpdateStatusBar(W, s0.Confirm.Wait, e)
    IN  IF s0.Page >= kPage_Switches /\ s0.IdleTimer <= 1
        THEN draw_screenWeather(W1, kPage_Home, s0.Confirm.Wait, e)
        ELSE W1

\* setup() with Wi-Fi connected: "Setup Weather forecast service" and the
\* first home page; W is the zeroed RAM
setupWeather(W, e) ==
    LET W1 == [W EXCEPT !.Forecast24H[0].LastTimeUpdated = 0,
                        !.WeatherForecast.LastTimeUpdated = 0]
    IN  draw_screenWeather(getOpenWeatherMap(W1, e), kPage_Home, FALSE, e)

\* ------------------------------------------------------------------------
\* Boot
\* ------------------------------------------------------------------------
\* RAM after a reset: globals are zero-initialised; the flash store survives
ResetState(store) ==
    [Page        |-> 0,
     IdleTimer   |-> 0,
     PIN         |-> <<>>,
     pinEntry    |-> <<>>,
     Switch      |-> [i \in 0 .. 7 |-> [Hidden |-> FALSE, AskConfirm |-> FALSE]],
     Confirm     |-> [Wait |-> FALSE, Button |-> 0],
     Thermostat  |-> [Status |-> FALSE, RelayStatus |-> FALSE, Temp |-> 0,
                      RemoteControl |-> FALSE, HeaterStatus |-> FALSE, Hysteresis |-> 0],
     Store       |-> store,
     Temperature |-> 0,
     TempAverage |-> AvgInit,
     HumiAverage |-> AvgInit,
     relayPin    |-> FALSE,
     sent        |-> <<>>,
     login       |-> ""]

\* setup(): connected is WiFi.status() == WL_CONNECTED after WiFiConnect()
setup(s, connected) ==
    LET s1 == [s EXCEPT !.IdleTimer = 0, !.TempAverage = AvgInit,
                           !.HumiAverage = AvgInit]
    IN  IF ~connected THEN [s1 EXCEPT !.Page = kPage_None]
        ELSE LET t  == IF s1.Store <= 0 \/ s1.Store >= TEMP_MAX THEN TEMP_DEFAULT ELSE s1.Store
                 s2 == [s1 EXCEPT !.Thermostat =
                            [Status |-> FALSE, RelayStatus |-> FALSE, Temp |-> t,
                             RemoteControl |-> TRUE, HeaterStatus |-> FALSE, Hysteresis |-> 0],
                                  !.relayPin = FALSE]
             IN  draw_screen(s2, kPage_Home, s2.Switch)

\* ------------------------------------------------------------------------
\* The one-second tick of loop()
\* ------------------------------------------------------------------------
\* remote control line: TRC is digitalRead(PIN_THERMOSTAT_REMOTE) == LOW
\* variant: the thermostat follows the level of the line at every tick
loopRemoteControl_FollowsLevel(s, TRC) ==
    LET s1 == [s EXCEPT !.Thermostat.RemoteControl = TRC]
    IN  IF s1.Thermostat.Status # TRC
        THEN IF ~TRC
             THEN [s1 EXCEPT !.Thermostat.Status = FALSE,
                             !.Thermostat.RelayStatus = FALSE,
                             !.relayPin = FALSE]
             ELSE [s1 EXCEPT !.Thermostat.Status = TRUE]
        ELSE s1

\* variant: the override to off clears RelayStatus and leaves the pin alone
loopRemoteControl_NoWrite(s, TRC) ==
    IF s.Thermostat.RemoteControl # TRC
    THEN LET s1 == [s EXCEPT !.Thermostat.RemoteControl = TRC]
         IN  IF s1.Thermostat.Status # s1.Thermostat.RemoteControl
             THEN IF ~s1.Thermostat.RemoteControl
                  THEN [s1 EXCEPT !.Thermostat.Status = FALSE,
                                  !.Thermostat.RelayStatus = FALSE]
                  ELSE [s1 EXCEPT !.Thermostat.Status = TRUE]
             ELSE s1
    ELSE s

loopRemoteControl(s, TRC) ==
    IF s.Thermostat.RemoteControl # TRC
    THEN LET s1 == [s EXCEPT !.Thermostat.RemoteControl = TRC]
         IN  IF s1.Thermostat.Status # s1.Thermostat.RemoteControl
             THEN IF ~s1.Thermostat.RemoteControl
                  THEN [s1 EXCEPT !.Thermostat.Status = FALSE,
                                  !.Thermostat.RelayStatus = FALSE,
                                  !.relayPin = FALSE]
                  ELSE [s1 EXCEPT !.Thermostat.Status = TRUE]
             ELSE s1
    ELSE s

\* variant: a change of the desired state is committed after half the delay
loopThermostat_ShortDelay(s) ==
    IF s.Thermostat.Status
    THEN LET HeaterNewStatus == s.Temperature < s.Thermostat.Temp
             s1 == IF s.Thermostat.HeaterStatus # HeaterNewStatus
                   THEN [s EXCEPT !.Thermostat.HeaterStatus = HeaterNewStatus,
                                  !.Thermostat.Hysteresis = THERMOSTAT_HYSTERESIS \div 2]
                   ELSE s
             s2 == IF s1.Thermostat.Hysteresis > 0
                   THEN [s1 EXCEPT !.Thermostat.Hysteresis = s1.Thermostat.Hysteresis - 1]
                   ELSE s1
         IN  IF s2.Thermostat.Hysteresis = 0 /\ s2.Thermostat.RelayStatus # HeaterNewStatus
             THEN [s2 EXCEPT !.Thermostat.RelayStatus = HeaterNewStatus,
                             !.relayPin = HeaterNewStatus]
             ELSE s2
    ELSE s

\* variant: the relay follows the desired state without waiting for the
\* countdown
loopThermostat_NoWait(s) ==
    IF s.Thermostat.Status
    THEN LET HeaterNewStatus == s.Temperature < s.Thermostat.Temp
             s1 == IF s.Thermostat.HeaterStatus # HeaterNewStatus
                   THEN [s EXCEPT !.Thermostat.HeaterStatus = HeaterNewStatus,
                                  !.Thermostat.Hysteresis = THERMOSTAT_HYSTERESIS]
                   ELSE s
             s2 == IF s1.Thermostat.Hysteresis > 0
                   THEN [s1 EXCEPT !.Thermostat.Hysteresis = s1.Thermostat.Hysteresis - 1]
                   ELSE s1
         IN  IF s2.Thermostat.RelayStatus # HeaterNewStatus
             THEN [s2 EXCEPT !.Thermostat.RelayStatus = HeaterNewStatus,
                             !.relayPin = HeaterNewStatus]
             ELSE s2
    ELSE s

\* thermostat control with hysteresis
loopThermostat(s) ==
    IF s.Thermostat.Status
    THEN LET HeaterNewStatus == s.Temperature < s.Thermostat.Temp
             s1 == IF s.Thermostat.HeaterStatus # HeaterNewStatus
                   THEN [s EXCEPT !.Thermostat.HeaterStatus = HeaterNewStatus,
                                  !.Thermostat.Hysteresis = THERMOSTAT_HYSTERESIS]
                   ELSE s
             s2 == IF s1.Thermostat.Hysteresis > 0
                   THEN [s1 EXCEPT !.Thermostat.Hysteresis = s1.Thermostat.Hysteresis - 1]
                   ELSE s1
         IN  IF s2.Thermostat.Hysteresis = 0 /\ s2.Thermostat.RelayStatus # HeaterNewStatus
             THEN [s2 EXCEPT !.Thermostat.RelayStatus = HeaterNewStatus,
                             !.relayPin = HeaterNewStatus]
             ELSE s2
    ELSE s

\* variant: the countdown starts at the thermostat page
loopIdle_FromThermostat(s) ==
    IF s.Page >= kPage_Thermostat
    THEN LET s1 == IF s.IdleTimer > 0 THEN [s EXCEPT !.IdleTimer = s.IdleTimer - 1] ELSE s
         IN  IF s1.IdleTimer = 0 THEN draw_screen(s1, kPage_Home, s1.Switch) ELSE s1
    ELSE s

\* variant: the countdown stops while a confirmation is awaited
loopIdle_SuppressedWhileWaiting(s) ==
    IF s.Page >= kPage_Switches /\ ~s.Confirm.Wait
    THEN LET s1 == IF s.IdleTimer > 0 THEN [s EXCEPT !.IdleTimer = s.IdleTimer - 1] ELSE s
         IN  IF s1.IdleTimer = 0 THEN draw_screen(s1, kPage_Home, s1.Switch) ELSE s1
    ELSE s

\* variant: the home page comes back on the tick after the count reaches 0
loopIdle_LateReturn(s) ==
    IF s.Page >= kPage_Switches
    THEN IF s.IdleTimer = 0 THEN draw_screen(s, kPage_Home, s.Switch)
         ELSE [s EXCEPT !.IdleTimer = s.IdleTimer - 1]
    ELSE s

\* idle countdown
loopIdle(s) ==
    IF s.Page >= kPage_Switches
    THEN LET s1 == IF s.IdleTimer > 0 THEN [s EXCEPT !.IdleTimer = s.IdleTimer - 1] ELSE s
         IN  IF s1.IdleTimer = 0 THEN draw_screen(s1, kPage_Home, s1.Switch) ELSE s1
    ELSE s

loopTick(s, TRC, dht) ==
    LET s1 == ReadDHT11(s, dht)
        s2 == loopRemoteControl(s1, TRC)
        s3 == loopThermostat(s2)
        s4 == IF s3.Page = kPage_Home THEN UpdateHomePage(s3) ELSE s3
    IN  loopIdle(s4)

\* ------------------------------------------------------------------------
\* State
\* ------------------------------------------------------------------------
VARIABLES
    Page,          \* unsigned int Page
    IdleTimer,     \* unsigned int IdleTimer
    PIN,           \* String PIN: the session credential ("" = none)
    pinEntry,      \* String pinEntry: the digits typed in the login page
    Switch,        \* Switch[8]
    Confirm,       \* struct WaitFor Confirm
    Thermostat,    \* struct ThermostatData Thermostat
    Store,         \* ThermostatStore (flash): the stored Thermostat.Temp
    Temperature,   \* float Temperature
    TempAverage,   \* CalcAverage TempAverage
    HumiAverage,   \* CalcAverage HumiAverage
    relayPin,      \* level of PIN_HEATER_RELAY (TRUE = HIGH)
    sent,          \* DoSwitch calls made by the last handler
    login,         \* answer CheckLogin got in the last handler ("" = not called)
    wifi,          \* WiFi.status() == WL_CONNECTED
    bootTemp,      \* history: Thermostat.Temp when setup() returned
    idleTicks,     \* history: ticks since the last tap (since boot before it)
    event,         \* history: the last step: "boot" (power-on), "tapboot" and
                   \* "longboot" (a restart by a tap, by a long press), "tap",
                   \* "long", "tick", "wifi"
    lastTap,       \* history: the point of the tap, when the last step is a tap
    desired,       \* history: desired relay state computed by the last
                   \* thermostat evaluation since boot ("none" before it)
    sinceFlip,     \* history: thermostat evaluations since the desired
                   \* relay state last changed (the changing one included)
    sinceOn,       \* history: thermostat evaluations since Thermostat.Status
                   \* last became true, counted up to THERMOSTAT_HYSTERESIS
                   \* (0 while it is false); counted in SpecEnable, NotCounted
                   \* in the other specifications
    added,         \* history: the values given to TempAverage.AddValue since
                   \* its Init()
    Forecast5D,    \* Weather5DData Forecast5D[6]
    listener,      \* the OWMListener of the last run of Get5DForecast, as the
                   \* run left it
    fetch,         \* history of Get5DForecast: the runs since boot, what the
                   \* connection did in the last one and the stream it parsed,
                   \* and whether the last run ended in the call of line 1051
    WeatherForecast, \* struct WeatherData WeatherForecast
    Forecast24H,   \* Weather24HData Forecast24H[8]
    nowTime,       \* String nowTime, as a minute of the day (NoTime = "")
    clock,         \* history: timeClient.getEpochTime() as the last handler
                   \* read it
    calls,         \* history: the weather requests made by the last handler
    stored         \* history: the stores into Forecast5D made by the last
                   \* value given to the listener, each with the field
                   \* and the indices d and h it used

progVars == <<Page, IdleTimer, PIN, pinEntry, Switch, Confirm, Thermostat, Store,
              Temperature, TempAverage, HumiAverage, relayPin, sent, login>>
vars == <<Page, IdleTimer, PIN, pinEntry, Switch, Confirm, Thermostat, Store,
          Temperature, TempAverage, HumiAverage, relayPin, sent, login, wifi, bootTemp,
          idleTicks,
          event, lastTap, desired, sinceFlip, sinceOn, added, Forecast5D, listener,
          fetch,
          WeatherForecast, Forecast24H, nowTime, clock, calls, stored>>

\* the weather and the clock text are followed in SpecWeather; the steps of
\* the other specifications leave them as the reset left them
weatherVars == <<WeatherForecast, Forecast24H, nowTime, clock, calls>>
\* the values of the decoder are followed one by one in SpecListener
forecastVars == <<Forecast5D, listener, fetch, weatherVars, stored>>

\* the program state as one record, with the logs of the last handler emptied
Cur ==
    [Page |-> Page, IdleTimer |-> IdleTimer, PIN |-> PIN, pinEntry |-> pinEntry,
     Switch |-> Switch, Confirm |-> Confirm, Thermostat |-> Thermostat, Store |-> Store,
     Temperature |-> Temperature, TempAverage |-> TempAverage,
     HumiAverage |-> HumiAverage, relayPin |-> relayPin,
     sent |-> <<>>, login |-> ""]

Commit(s) ==
    /\ Page' = s.Page
    /\ IdleTimer' = s.IdleTimer
    /\ PIN' = s.PIN
    /\ pinEntry' = s.pinEntry
    /\ Switch' = s.Switch
    /\ Confirm' = s.Confirm
    /\ Thermostat' = s.Thermostat
    /\ Store' = s.Store
    /\ Temperature' = s.Temperature
    /\ TempAverage' = s.TempAverage
    /\ HumiAverage' = s.HumiAverage
    /\ relayPin' = s.relayPin
    /\ sent' = s.sent
    /\ login' = s.login

\* ------------------------------------------------------------------------
\* Inputs of the exploration
\* ------------------------------------------------------------------------
\* no run of Get5DForecast since boot
NoFetch == [runs |-> 0, depth |-> 0, conn |-> "none", stream |-> <<>>, again |-> FALSE]

\* the weather and the clock text in RAM after a reset
WeatherReset ==
    /\ WeatherForecast = WeatherDataZero
    /\ Forecast24H = Forecast24HZero
    /\ nowTime = NoTime
    /\ clock = 0
    /\ calls = <<>>

Pt(x, y) == [x |-> x, y |-> y]
NoTap == Pt(0 - 1, 0 - 1)

\* the setpoints explored: MaxDrift steps around the boot default, the two
\* limits and the zero of an uninitialised Thermostat
Anchors == {0, TEMP_MIN, TEMP_DEFAULT, TEMP_MAX}
Explored == {a + k * HalfDeg : a \in Anchors, k \in (0 - MaxDrift) .. MaxDrift}

\* flash content at power-on: blank, or a setpoint stored by an earlier run
PowerOnStore == {0, TEMP_MIN, TEMP_MAX - HalfDeg, TEMP_MAX}

HttpBodies == {"TIMEOUT", "OFFLINE", "1", "0"}

SwitchRec(h, a) == [Hidden |-> h, AskConfirm |-> a]
\* answers of the server to GetSwitchConfig: nothing configured (the stub as
\* it is), and a panel with a hidden switch and switches asking confirmation
Config0 == [i \in 0 .. 7 |-> SwitchRec(FALSE, FALSE)]
Config1 == [i \in 0 .. 7 |-> SwitchRec(i = 1, i \in {4, 7})]
SwitchConfigs == {Config0, Config1}

OobReads == {SwitchRec(h, a) : h \in BOOLEAN, a \in BOOLEAN}

\* bytes read from the DHT11
SensorTemps == {23}
DhtReads ==
    {[err |-> TRUE, temp |-> 0, humi |-> 0]}
        \cup {[err |-> FALSE, temp |-> b, humi |-> 40] : b \in SensorTemps}

\* representative taps of each page: the corners of its hit regions and
\* points just outside them
HomeTaps ==
    {Pt(260, 200), Pt(200, 170), Pt(319, 239), Pt(199, 170), Pt(200, 169),
     Pt(0, 140), Pt(199, 239), Pt(0, 139), Pt(199, 139), Pt(100, 50), Pt(319, 169)}
LoginTaps ==
    {Pt(150, 150),                 \* digit 2
     Pt(250, 60), Pt(192, 30), Pt(319, 93), Pt(191, 60), Pt(250, 29), Pt(250, 94),
     Pt(100, 50), Pt(150, 239)}
SwitchTaps ==
    {Pt(60, 200), Pt(119, 120), Pt(0, 239),       \* NO, button 6 / 2
     Pt(260, 200), Pt(200, 120), Pt(319, 239),    \* YES, button 7 / 3
     Pt(150, 150), Pt(120, 120), Pt(199, 200), Pt(60, 119), Pt(260, 119),
     Pt(160, 60), Pt(159, 20), Pt(100, 10), Pt(100, 19)}
ThermostatTaps ==
    {Pt(160, 60), Pt(0, 30), Pt(319, 89), Pt(160, 29), Pt(160, 90),
     Pt(60, 200), Pt(119, 180), Pt(120, 200), Pt(60, 179),
     Pt(260, 200), Pt(200, 239), Pt(199, 200)}
OtherTaps == {Pt(160, 120)}
ForecastTaps == {Pt(160, 120), Pt(0, 0), Pt(319, 239)}

\* the values Page takes
Pages == (kPage_Home .. kPage_Auth) \cup {kPage_None}

Taps(pg) ==
    CASE pg = kPage_Home       -> HomeTaps
      [] pg = kPage_Auth       -> LoginTaps
      [] pg = kPage_Switches   -> SwitchTaps
      [] pg = kPage_Thermostat -> ThermostatTaps
      [] pg \in {kPage_Forecast24H, kPage_Forecast5D} -> ForecastTaps
      [] OTHER                 -> OtherTaps

\* ------------------------------------------------------------------------
\* Actions
\* ------------------------------------------------------------------------
\* the inputs a tap at p can consume in the current state; an input the
\* handler does not read is fixed to its first value
OkHit(p) == isIntersect(p.x, p.y, 1, 1, 320 - 64 * 2, 30, 64 * 2, 64)
HttpFor(p) == IF Page = kPage_Auth /\ OkHit(p) THEN HttpBodies ELSE {"0"}
CfgFor(p, Cfgs) == IF Page \in {kPage_Home, kPage_Auth, kPage_Switches} THEN Cfgs ELSE {Switch}
OobFor(p) ==
    IF Page = kPage_Switches /\ ~Confirm.Wait /\ FindButton(p) \notin 0 .. 7
    THEN OobReads ELSE {SwitchRec(TRUE, FALSE)}

\* sinceOn after a handler other than the tick, and after the tick, has
\* left the state s: the tick evaluates the thermostat once if it leaves
\* Thermostat.Status true
NotCounted == 0 - 1
SinceOnTap(s) ==
    IF sinceOn = NotCounted THEN NotCounted
    ELSE IF s.Thermostat.Status /\ Thermostat.Status THEN sinceOn
    ELSE 0
SinceOnTick(s) ==
    IF sinceOn = NotCounted THEN NotCounted
    ELSE IF ~s.Thermostat.Status THEN 0
    ELSE IF ~Thermostat.Status THEN 1
    ELSE IF sinceOn < THERMOSTAT_HYSTERESIS THEN sinceOn + 1
    ELSE sinceOn

\* NVIC_SystemReset() followed by setup(); cause names the event that
\* called it
Reboot(cause) ==
    \E connected \in BOOLEAN :
        LET s == setup(ResetState(Store), connected)
        IN  /\ Commit(s)
            /\ wifi' = connected
            /\ bootTemp' = s.Thermostat.Temp
            /\ idleTicks' = 0
            /\ event' = cause
            /\ lastTap' = NoTap
            /\ desired' = "none"
            /\ sinceFlip' = THERMOSTAT_HYSTERESIS
            /\ sinceOn' = IF sinceOn = NotCounted THEN NotCounted ELSE 0
            /\ added' = <<>>
            /\ Forecast5D' = Forecast5DZero
            /\ listener' = OWMListenerInit(0)
            /\ fetch' = NoFetch
            /\ WeatherForecast' = WeatherDataZero
            /\ Forecast24H' = Forecast24HZero
            /\ nowTime' = NoTime
            /\ clock' = 0
            /\ calls' = <<>>
            /\ stored' = <<>>

\* onClick: a tap; without Wi-Fi the device restarts.  A tap that would take
\* the setpoint out of the explored setpoints is not taken.
onClick(TapsOf, Cfgs) ==
    IF ClickRestarts(wifi) THEN Reboot("tapboot")
    ELSE \E p \in TapsOf[Page] :
         \E http \in HttpFor(p), cfg \in CfgFor(p, Cfgs), oob \in OobFor(p) :
            LET s == onClickPage(Cur, p, http, cfg, oob)
            IN  /\ s.Thermostat.Temp \in Explored
                /\ Commit(s)
                /\ idleTicks' = 0
                /\ event' = "tap"
                /\ lastTap' = p
                /\ sinceOn' = SinceOnTap(s)
                /\ UNCHANGED <<wifi, bootTemp, desired, sinceFlip, added>>
                /\ UNCHANGED forecastVars

\* onLongClick: restart from the home page
onLongClick ==
    IF LongClickRestarts(Cur) THEN Reboot("longboot")
    ELSE /\ Commit(Cur)
         /\ event' = "long"
         /\ lastTap' = NoTap
         /\ UNCHANGED <<wifi, bootTemp, idleTicks, desired, sinceFlip, sinceOn, added>>
         /\ UNCHANGED forecastVars

\* loop(): the one-second tick, run only with Wi-Fi connected
Tick(Lines, Reads) ==
    /\ wifi
    /\ \E TRC \in Lines, dht \in Reads :
          LET s  == loopTick(Cur, TRC, dht)
              s2 == loopRemoteControl(ReadDHT11(Cur, dht), TRC)
              evaluated == s2.Thermostat.Status
              new == IF s2.Temperature < s2.Thermostat.Temp THEN "on" ELSE "off"
          IN  /\ Commit(s)
              /\ idleTicks' = IF idleTicks < IDLE_TIME THEN idleTicks + 1 ELSE idleTicks
              /\ event' = "tick"
              /\ lastTap' = NoTap
              /\ desired' = IF evaluated THEN new ELSE desired
              /\ sinceOn' = SinceOnTick(s)
              /\ sinceFlip' = IF ~evaluated THEN sinceFlip
                              ELSE IF desired # "none" /\ desired # new THEN 1
                              ELSE IF sinceFlip < THERMOSTAT_HYSTERESIS THEN sinceFlip + 1
                              ELSE sinceFlip
              /\ added' = IF dht.err THEN added
                          ELSE Append(added, DHTReading(dht.temp))
              /\ UNCHANGED <<wifi, bootTemp>>
              /\ UNCHANGED forecastVars

\* the Wi-Fi link goes down or comes back
WiFiChange ==
    /\ wifi' = ~wifi
    /\ sent' = <<>>
    /\ login' = ""
    /\ event' = "wifi"
    /\ lastTap' = NoTap
    /\ UNCHANGED <<Page, IdleTimer, PIN, pinEntry, Switch, Confirm, Thermostat, Store,
                   Temperature, TempAverage, HumiAverage, relayPin, bootTemp, idleTicks,
                   desired, sinceFlip, sinceOn, added>>
    /\ UNCHANGED forecastVars

\* the state after power-on; since is NotCounted, or 0 to count sinceOn
InitCounting(Stores, since) ==
    \E store \in Stores, connected \in BOOLEAN :
        LET s == setup(ResetState(store), connected)
        IN  /\ Page = s.Page /\ IdleTimer = s.IdleTimer /\ PIN = s.PIN
            /\ pinEntry = s.pinEntry /\ Switch = s.Switch /\ Confirm = s.Confirm
            /\ Thermostat = s.Thermostat /\ Store = s.Store
            /\ Temperature = s.Temperature /\ TempAverage = s.TempAverage
            /\ HumiAverage = s.HumiAverage
            /\ relayPin = s.relayPin /\ sent = s.sent /\ login = s.login
            /\ wifi = connected
            /\ bootTemp = s.Thermostat.Temp
            /\ idleTicks = 0
            /\ event = "boot"
            /\ lastTap = NoTap
            /\ desired = "none"
            /\ sinceFlip = THERMOSTAT_HYSTERESIS
            /\ sinceOn = since
            /\ added = <<>>
            /\ Forecast5D = Forecast5DZero
            /\ listener = OWMListenerInit(0)
            /\ fetch = NoFetch
            /\ WeatherReset
            /\ stored = <<>>

\* the state after a boot with a blank store followed by AVERAGE_MAX ticks on
\* the home page, each reading the byte temp from the sensor with the
\* remote-control line idle: the filter is full, the ticks have refreshed
\* Temperature and taken over the level of the line
InitWith(Stores) == InitCounting(Stores, NotCounted)

RECURSIVE AddValues(_, _, _)
AddValues(a, k, in) == IF k = 0 THEN a ELSE AddValues(AddValue(a, in), k - 1, in)

WarmState(temp) ==
    LET s0 == setup(ResetState(0), TRUE)
    IN  UpdateHomePage([s0 EXCEPT
            !.TempAverage = AddValues(AvgInit, AVERAGE_MAX, DHTReading(temp)),
            !.HumiAverage = AddValues(AvgInit, AVERAGE_MAX, DHTHumidity(40)),
            !.Thermostat.RemoteControl = FALSE])

InitWarmCounting(temp, since) ==
    LET s == WarmState(temp)
    IN  /\ Page = s.Page /\ IdleTimer = s.IdleTimer /\ PIN = s.PIN
        /\ pinEntry = s.pinEntry /\ Switch = s.Switch /\ Confirm = s.Confirm
        /\ Thermostat = s.Thermostat /\ Store = s.Store
        /\ Temperature = s.Temperature /\ TempAverage = s.TempAverage
        /\ HumiAverage = s.HumiAverage
        /\ relayPin = s.relayPin /\ sent = <<>> /\ login = ""
        /\ wifi = TRUE
        /\ bootTemp = s.Thermostat.Temp
        /\ idleTicks = IDLE_TIME
        /\ event = "tick"
        /\ lastTap = NoTap
        /\ desired = "none"
        /\ sinceFlip = THERMOSTAT_HYSTERESIS
        /\ sinceOn = since
        /\ added = [i \in 1 .. AVERAGE_MAX |-> DHTReading(temp)]
        /\ Forecast5D = Forecast5DZero
        /\ listener = OWMListenerInit(0)
        /\ fetch = NoFetch
        /\ WeatherReset
        /\ stored = <<>>

InitWarm(temp) == InitWarmCounting(temp, NotCounted)

DhtErr == [err |-> TRUE, temp |-> 0, humi |-> 0]

\* Navigation: every page and its taps, the login and the switch panel, the
\* idle timer, Wi-Fi loss and restarts; the sensor is not answering, the
\* remote-control line is idle and the taps on the thermostat page miss its
\* buttons
NavThermostatTaps == {Pt(160, 29), Pt(160, 90), Pt(120, 200), Pt(60, 179), Pt(199, 200)}
NavTaps == [pg \in Pages |-> IF pg = kPage_Thermostat THEN NavThermostatTaps ELSE Taps(pg)]

Init == InitWith({0})

Next ==
    \/ onClick(NavTaps, SwitchConfigs)
    \/ onLongClick
    \/ Tick({FALSE}, {DhtErr})
    \/ WiFiChange

Spec == Init /\ [][Next]_vars

\* Thermostat: the home page and the thermostat page, the remote-control
\* line, Wi-Fi loss and restarts, from power-on and from a warmed-up filter;
\* the sensor stops answering, so the filter output stays where it is until
\* a restart clears it
ThermoHomeTaps == {Pt(260, 200), Pt(200, 170)}
ThermoPageTaps ==
    {Pt(319, 89),      \* status button
     Pt(119, 180),     \* minus
     Pt(200, 239),     \* plus
     Pt(160, 90)}      \* no button
ThermoTaps ==
    [pg \in Pages |-> CASE pg = kPage_Home       -> ThermoHomeTaps
                        [] pg = kPage_Thermostat -> ThermoPageTaps
                        [] OTHER                 -> Taps(pg)]

InitThermostat == InitWith(PowerOnStore) \/ InitWarm(23)

NextThermostat ==
    \/ onClick(ThermoTaps, {Config0})
    \/ onLongClick
    \/ Tick(BOOLEAN, {DhtErr})
    \/ WiFiChange

SpecThermostat == InitThermostat /\ [][NextThermostat]_vars

\* Enable: the thermostat switched on and off, by the status button of the
\* thermostat page and by the remote-control line, from power-on with a
\* blank store and from a warmed-up filter; the evaluations since it was
\* last switched on are counted in sinceOn
EnableTaps ==
    [pg \in Pages |-> CASE pg = kPage_Home       -> {Pt(260, 200)}
                        [] pg = kPage_Thermostat -> {Pt(319, 89)}
                        [] OTHER                 -> Taps(pg)]

InitEnable == InitCounting({0}, 0) \/ InitWarmCounting(23, 0)

NextEnable ==
    \/ onClick(EnableTaps, {Config0})
    \/ onLongClick
    \/ Tick(BOOLEAN, {DhtErr})
    \/ WiFiChange

SpecEnable == InitEnable /\ [][NextEnable]_vars

\* Login: the way from the home page to the login page and the keypad, with
\* digits of both rows, the OK button and a tap beside the keypad
KeypadHomeTaps == {Pt(100, 50)}
KeypadLoginTaps ==
    {Pt(150, 150), Pt(319, 237),   \* digits 2 and 9
     Pt(250, 60),                  \* OK
     Pt(100, 50)}
KeypadSwitchTaps == {Pt(150, 150)}
KeypadTaps ==
    [pg \in Pages |-> CASE pg = kPage_Home     -> KeypadHomeTaps
                        [] pg = kPage_Auth     -> KeypadLoginTaps
                        [] pg = kPage_Switches -> KeypadSwitchTaps
                        [] OTHER               -> Taps(pg)]

NextLogin ==
    \/ onClick(KeypadTaps, {Config0})
    \/ onLongClick
    \/ Tick({FALSE}, {DhtErr})
    \/ WiFiChange

SpecLogin == Init /\ [][NextLogin]_vars

\* Rolling average: TempAverage is given sequences of readings.  The
\* readings are the floats that line 261 computes for the sensor bytes 22
\* and 23 (18.92 and 19.78 degrees), as multiples of 2^-19, the spacing of
\* the floats between 16 and 32; scaling by a power of two commutes with the
\* rounding of float.
DHTFloat22 == 9919529
DHTFloat23 == 10370417
AvgInputs == {DHTFloat22, DHTFloat23}

Changes(seq) == Cardinality({i \in 1 .. (Len(seq) - 1) : seq[i] # seq[i + 1]})

AddSample ==
    \E v \in AvgInputs :
        /\ Len(added) < MaxSamples
        /\ Changes(Append(added, v)) <= MaxChanges
        /\ TempAverage' = AddValue(TempAverage, v)
        /\ added' = Append(added, v)
        /\ UNCHANGED <<Page, IdleTimer, PIN, pinEntry, Switch, Confirm, Thermostat,
                       Store, Temperature, HumiAverage, relayPin, sent, login, wifi,
                       bootTemp, idleTicks, event, lastTap, desired, sinceFlip,
                       sinceOn>>
        /\ UNCHANGED forecastVars

NextAverage == AddSample

SpecAverage == Init /\ [][NextAverage]_vars

\* 5-day forecast: the runs of Get5DForecast that Show5DForecast starts on
\* the 5-day page when the forecast is an hour old, and the runs that a
\* short or long stream starts again.
\* Thursday 2023-11-16 00:00 UTC
Thursday == 1700092800

\* the first item at 00:00 (5 days of 8 items), at 09:00 (6 days: 5, 8, 8,
\* 8, 8, 3) or at 21:00 (6 days: 1, 8, 8, 8, 8, 7); complete, cut short, or
\* with one item too many
Streams ==
    {OWMStream(Thursday + hh * 3600, n, base) :
        hh \in {0, 9, 21}, n \in {OWM_ITEMS, OWM_ITEMS - 3}, base \in {0, 20}}
    \cup {OWMStream(Thursday, OWM_ITEMS + 1, 0)}

Conns == {"refused", "timeout", "stream"}
StreamsFor(conn, Ss) == IF conn = "stream" THEN Ss ELSE {<<>>}
Hours0 == {0, 12}
Nows == {Thursday + 600, Thursday + 600 + OWM_UDPATE_FREQ}

\* the state in which Show5DForecast runs: the 5-day page has just been
\* opened from the 24-hour page
ForecastPageState ==
    LET s0 == setup(ResetState(0), TRUE)
        s1 == onClickPage(s0, Pt(0, 140), "0", Config0, SwitchRec(TRUE, FALSE))
    IN  onClickPage(s1, Pt(160, 120), "0", Config0, SwitchRec(TRUE, FALSE))

InitForecast ==
    LET s == ForecastPageState
    IN  /\ Page = s.Page /\ IdleTimer = s.IdleTimer /\ PIN = s.PIN
        /\ pinEntry = s.pinEntry /\ Switch = s.Switch /\ Confirm = s.Confirm
        /\ Thermostat = s.Thermostat /\ Store = s.Store
        /\ Temperature = s.Temperature /\ TempAverage = s.TempAverage
        /\ HumiAverage = s.HumiAverage
        /\ relayPin = s.relayPin /\ sent = <<>> /\ login = ""
        /\ wifi = TRUE
        /\ bootTemp = s.Thermostat.Temp
        /\ idleTicks = 0
        /\ event = "tap"
        /\ lastTap = Pt(160, 120)
        /\ desired = "none"
        /\ sinceFlip = THERMOSTAT_HYSTERESIS
        /\ sinceOn = NotCounted
        /\ added = <<>>
        /\ Forecast5D = Forecast5DZero
        /\ listener = OWMListenerInit(0)
        /\ fetch = NoFetch
        /\ WeatherReset
        /\ stored = <<>>

\* one run of Get5DForecast at the time now, with a stream of Ss
Get5D(now, Ss) ==
    /\ fetch.runs < MaxAttempts
    /\ \E conn \in Conns, hour0 \in Hours0 : \E stream \in StreamsFor(conn, Ss) :
          LET r == Get5DForecast(Forecast5D, conn, stream, hour0, now)
          IN  /\ ~r.oob
              /\ Forecast5D' = r.F
              /\ listener' = r.L
              /\ fetch' = [runs   |-> fetch.runs + 1,
                           depth  |-> IF fetch.again THEN fetch.depth + 1 ELSE 1,
                           conn   |-> conn,
                           stream |-> stream,
                           again  |-> r.again]
    /\ UNCHANGED <<Page, IdleTimer, PIN, pinEntry, Switch, Confirm, Thermostat, Store,
                   Temperature, TempAverage, HumiAverage, relayPin, sent, login, wifi, bootTemp,
                   idleTicks, event, lastTap, desired, sinceFlip, sinceOn, added>>
    /\ UNCHANGED <<weatherVars, stored>>

\* Show5DForecast, called by the draw_screen that opens the 5-day page,
\* finds the forecast an hour old and calls Get5DForecast
Show5DForecast(Ss) ==
    /\ Page = kPage_Forecast5D
    /\ event = "tap"
    /\ ~fetch.again
    /\ \E now \in Nows :
          /\ now - Forecast5D[0].LastTimeUpdated >= OWM_UDPATE_FREQ
          /\ Get5D(now, Ss)

\* the call Get5DForecast() that ends a run whose stream did not count 40
Get5DForecastAgain(Ss) ==
    /\ fetch.again
    /\ \E now \in Nows :
          /\ now >= Forecast5D[0].LastTimeUpdated
          /\ Get5D(now, Ss)

\* variant: touch events and ticks are served while Get5DForecast runs
LoopRuns_Always(f) == TRUE

\* loop() polls the touch screen and runs the tick between two handlers:
\* not before the Get5DForecast that Show5DForecast called has returned
LoopRuns(f) == ~f.again

ForecastPageTaps ==
    [pg \in Pages |-> IF pg = kPage_Forecast5D THEN {Pt(160, 120)} ELSE {}]

ForecastClick ==
    /\ LoopRuns(fetch)
    /\ wifi
    /\ onClick(ForecastPageTaps, {Config0})

ForecastTick ==
    /\ LoopRuns(fetch)
    /\ Tick({FALSE}, {DhtErr})

\* Retry: the 5-day page with a complete list or a list cut short, and
\* the loop() around it: the ticks on the page and the tap that leaves it
RetryStreams == {OWMStream(Thursday, OWM_ITEMS, 0), OWMStream(Thursday, OWM_ITEMS - 3, 0)}

NextRetry ==
    \/ Show5DForecast(RetryStreams)
    \/ Get5DForecastAgain(RetryStreams)
    \/ ForecastClick
    \/ ForecastTick

SpecRetry == InitForecast /\ [][NextRetry]_vars

NextForecast ==
    \/ Show5DForecast(Streams)
    \/ Get5DForecastAgain(Streams)

SpecForecast == InitForecast /\ [][NextForecast]_vars

\* Listener: one run of parser.parse inside Get5DForecast, value by value.
\* The stream starts as a regular list (no item, 7 items of one day, or the
\* 40 items of 6 days) and goes on with whatever arrives: the values of the
\* keys dt, temp, humidity and icon in any order, at most MaxItems of them
\* of the key dt, with timestamps of two days at 12:00.  While the parser
\* runs, loop() does not: there is no tap and no tick.  What follows a
\* store outside Forecast5D is not followed.
ListenerPrefixes ==
    {<<>>, OWMStream(Thursday, 7, 0), OWMStream(Thursday + 9 * 3600, OWM_ITEMS, 0)}
ListenerDts == {Thursday + 12 * 3600, Thursday + 86400 + 12 * 3600}
ListenerValues ==
    [key \in {"dt", "temp", "humidity", "icon"} |->
        CASE key = "dt"       -> ListenerDts
          [] key = "temp"     -> {5}
          [] key = "humidity" -> {Pct(50)}
          [] key = "icon"     -> {"01d"}]

InStore(w) == w.d \in 0 .. 5 /\ w.h \in 0 .. 7

\* Get5DForecast has reset Forecast5D and called listener.Init(), and
\* parser.parse has gone through the regular part of the stream
InitListener ==
    LET s == ForecastPageState
    IN  /\ Page = s.Page /\ IdleTimer = s.IdleTimer /\ PIN = s.PIN
        /\ pinEntry = s.pinEntry /\ Switch = s.Switch /\ Confirm = s.Confirm
        /\ Thermostat = s.Thermostat /\ Store = s.Store
        /\ Temperature = s.Temperature /\ TempAverage = s.TempAverage
        /\ HumiAverage = s.HumiAverage
        /\ relayPin = s.relayPin /\ sent = <<>> /\ login = ""
        /\ wifi = TRUE
        /\ bootTemp = s.Thermostat.Temp
        /\ idleTicks = 0
        /\ event = "tap"
        /\ lastTap = Pt(160, 120)
        /\ desired = "none"
        /\ sinceFlip = THERMOSTAT_HYSTERESIS
        /\ sinceOn = NotCounted
        /\ added = <<>>
        /\ \E hour0 \in Hours0, prefix \in ListenerPrefixes :
              LET st == ParseStream([F |-> ResetForecast(Forecast5DZero),
                                     L |-> OWMListenerInit(hour0), oob |-> FALSE],
                                    prefix, 1)
              IN  /\ Forecast5D = st.F
                  /\ listener = st.L
                  /\ fetch = [runs |-> 1, depth |-> 1, conn |-> "stream",
                              stream |-> prefix, again |-> FALSE]
        /\ WeatherReset
        /\ stored = <<>>

\* OWMListener::value(v) after key(key)
Value(key) ==
    /\ \A i \in 1 .. Len(stored) : InStore(stored[i])
    /\ key = "dt" => listener._count < Len(fetch.stream) + MaxItems
    /\ \E v \in ListenerValues[key] :
          LET st == OWMListenerValue([F |-> Forecast5D, L |-> listener, oob |-> FALSE],
                                     key, v)
          IN  /\ Forecast5D' = st.F
              /\ listener' = st.L
              /\ stored' = OWMListenerStores(listener, key, v)
    /\ UNCHANGED <<Page, IdleTimer, PIN, pinEntry, Switch, Confirm, Thermostat, Store,
                   Temperature, TempAverage, HumiAverage, relayPin, sent, login, wifi, bootTemp,
                   idleTicks, event, lastTap, desired, sinceFlip, sinceOn, added, fetch>>
    /\ UNCHANGED weatherVars

NextListener ==
    \/ Value("dt")
    \/ Value("temp")
    \/ Value("humidity")
    \/ Value("icon")

SpecListener == InitListener /\ [][NextListener]_vars

\* Weather: the home page, the two forecast pages and the thermostat page
\* (a page with a status bar and an idle timeout), with Wi-Fi connected; the
\* clock read by a handler is any of WeatherTimes not before the last one
\* read, and the network answers a request, times out or is off line.
WeatherTimes == {Thursday + 600 + k : k \in {0, 60, 3600, 3660}}
Nets == {"ok", "timeout", "offline"}
Envs == {[now |-> t, net |-> n] : t \in {x \in WeatherTimes : x >= clock}, n \in Nets}

WeatherZero ==
    [WeatherForecast |-> WeatherDataZero, Forecast24H |-> Forecast24HZero,
     Forecast5D |-> Forecast5DZero, listener |-> OWMListenerInit(0),
     nowTime |-> NoTime, calls |-> <<>>]

\* the weather state as one record, with the calls of the last handler
\* emptied
WCur ==
    [WeatherForecast |-> WeatherForecast, Forecast24H |-> Forecast24H,
     Forecast5D |-> Forecast5D, listener |-> listener, nowTime |-> nowTime,
     calls |-> <<>>]

Calls5D(W) == {i \in 1 .. Len(W.calls) : W.calls[i].series = "5d"}

WeatherCommit(W, e, runs) ==
    /\ WeatherForecast' = W.WeatherForecast
    /\ Forecast24H' = W.Forecast24H
    /\ Forecast5D' = W.Forecast5D
    /\ listener' = W.listener
    /\ nowTime' = W.nowTime
    /\ calls' = W.calls
    /\ clock' = e.now
    /\ UNCHANGED stored
    /\ fetch' = IF Calls5D(W) = {} THEN [fetch EXCEPT !.runs = runs]
                ELSE [runs   |-> runs + 1,
                      depth  |-> 1,
                      conn   |-> CASE e.net = "timeout" -> "timeout"
                                   [] e.net = "offline" -> "refused"
                                   [] OTHER             -> "stream",
                      stream |-> IF e.net = "ok" THEN OWMListAt(e.now, OWM_ITEMS) ELSE <<>>,
                      again  |-> FALSE]

WeatherHomeTaps == {Pt(260, 200), Pt(0, 140)}
WeatherThermostatTaps == {Pt(160, 90)}
WeatherTaps ==
    [pg \in Pages |-> CASE pg = kPage_Home       -> WeatherHomeTaps
                        [] pg = kPage_Thermostat -> WeatherThermostatTaps
                        [] pg \in {kPage_Forecast24H, kPage_Forecast5D} -> {Pt(160, 120)}
                        [] OTHER                 -> {}]

InitWeather ==
    \E t \in WeatherTimes, n \in Nets :
        LET e == [now |-> t, net |-> n]
            s == setup(ResetState(0), TRUE)
            W == setupWeather(WeatherZero, e)
        IN  /\ Page = s.Page /\ IdleTimer = s.IdleTimer /\ PIN = s.PIN
            /\ pinEntry = s.pinEntry /\ Switch = s.Switch /\ Confirm = s.Confirm
            /\ Thermostat = s.Thermostat /\ Store = s.Store
            /\ Temperature = s.Temperature /\ TempAverage = s.TempAverage
            /\ HumiAverage = s.HumiAverage
            /\ relayPin = s.relayPin /\ sent = s.sent /\ login = s.login
            /\ wifi = TRUE
            /\ bootTemp = s.Thermostat.Temp
            /\ idleTicks = 0
            /\ event = "boot"
            /\ lastTap = NoTap
            /\ desired = "none"
            /\ sinceFlip = THERMOSTAT_HYSTERESIS
            /\ sinceOn = NotCounted
            /\ added = <<>>
            /\ fetch = NoFetch
            /\ WeatherForecast = W.WeatherForecast
            /\ Forecast24H = W.Forecast24H
            /\ Forecast5D = W.Forecast5D
            /\ listener = W.listener
            /\ nowTime = W.nowTime
            /\ calls = W.calls
            /\ clock = t
            /\ stored = <<>>

\* onClick with Wi-Fi connected.  A tap that would start one more run of
\* Get5DForecast than MaxFetches is not taken.
WeatherClick ==
    \E p \in WeatherTaps[Page], e \in Envs :
        LET s == onClickPage(Cur, p, "0", Config0, SwitchRec(TRUE, FALSE))
            W == onClickWeather(WCur, Cur, s, p, e)
        IN  /\ Calls5D(W) # {} => fetch.runs < MaxFetches
            /\ Commit(s)
            /\ WeatherCommit(W, e, fetch.runs)
            /\ idleTicks' = 0
            /\ event' = "tap"
            /\ lastTap' = p
            /\ sinceOn' = SinceOnTap(s)
            /\ UNCHANGED <<wifi, bootTemp, desired, sinceFlip, added>>

\* the one-second tick of loop(); the sensor is not answering and the
\* remote-control line is idle
WeatherTick ==
    \E e \in Envs :
        LET s == loopTick(Cur, FALSE, DhtErr)
            W == loopWeather(WCur, Cur, e)
        IN  /\ Commit(s)
            /\ WeatherCommit(W, e, fetch.runs)
            /\ idleTicks' = IF idleTicks < IDLE_TIME THEN idleTicks + 1 ELSE idleTicks
            /\ event' = "tick"
            /\ lastTap' = NoTap
            /\ sinceOn' = SinceOnTick(s)
            /\ UNCHANGED <<wifi, bootTemp, desired, sinceFlip, added>>

\* onLongClick on the home page: NVIC_SystemReset() and a setup() that
\* finds Wi-Fi
WeatherRestart ==
    /\ LongClickRestarts(Cur)
    /\ \E e \in Envs :
          LET s == setup(ResetState(Store), TRUE)
              W == setupWeather(WeatherZero, e)
          IN  /\ Commit(s)
              /\ WeatherCommit(W, e, 0)
              /\ bootTemp' = s.Thermostat.Temp
              /\ idleTicks' = 0
              /\ event' = "longboot"
              /\ lastTap' = NoTap
              /\ desired' = "none"
              /\ sinceFlip' = THERMOSTAT_HYSTERESIS
              /\ sinceOn' = IF sinceOn = NotCounted THEN NotCounted ELSE 0
              /\ added' = <<>>
              /\ UNCHANGED wifi

NextWeather ==
    \/ WeatherClick
    \/ WeatherTick
    \/ WeatherRestart

SpecWeather == InitWeather /\ [][NextWeather]_vars

\* Sensor: the thermostat with a sensor that answers.  The store holds the
\* setpoint 15.0 at power-on; every tick reads the byte 23 (19.78 degrees
\* after the offset) or fails, until MaxSamples values have been given to
\* the rolling average; the taps open the thermostat page and switch the
\* thermostat on and off.
SensorReads == {DhtErr, [err |-> FALSE, temp |-> 23, humi |-> 40]}
SensorHomeTaps == {Pt(260, 200)}
SensorPageTaps == {Pt(319, 89)}
SensorTaps ==
    [pg \in Pages |-> CASE pg = kPage_Home       -> SensorHomeTaps
                        [] pg = kPage_Thermostat -> SensorPageTaps
                        [] OTHER                 -> Taps(pg)]

InitSensor == InitWith({TEMP_MIN}) /\ wifi

SensorTick ==
    /\ Len(added) < MaxSamples
    /\ Tick({FALSE}, SensorReads)

NextSensor ==
    \/ onClick(SensorTaps, {Config0})
    \/ SensorTick

SpecSensor == InitSensor /\ [][NextSensor]_vars

\* Heater: the thermostat under the scheduling of loop().  The store holds
\* the setpoint 15.0 at power-on; the sensor answers 23 at every tick until
\* MaxSamples values have been given to the rolling average and fails from
\* then on, so the rolling mean climbs to 19.78 degrees and stays there;
\* the taps open the thermostat page and switch the thermostat on and off,
\* and open the 24-hour forecast page, where no tap follows; the Wi-Fi link
\* goes down and comes back.
\* loop() is called for ever, and with Wi-Fi connected it runs the tick
\* whenever a second has passed: the tick is taken again and again as long
\* as Wi-Fi stays connected.  Nothing makes the user tap.
HeaterReads == {[err |-> FALSE, temp |-> 23, humi |-> 40]}
HeaterHomeTaps == {Pt(260, 200), Pt(0, 140)}
HeaterPageTaps == {Pt(319, 89)}
HeaterTaps ==
    [pg \in Pages |-> CASE pg = kPage_Home       -> HeaterHomeTaps
                        [] pg = kPage_Thermostat -> HeaterPageTaps
                        [] pg \in {kPage_Forecast24H, kPage_Forecast5D} -> {}
                        [] OTHER                 -> Taps(pg)]

\* loop(): the one-second tick with the remote-control line idle, step by
\* step as loopTick composes it
HeaterTick ==
    /\ wifi
    /\ \E dht \in (IF Len(added) < MaxSamples THEN HeaterReads ELSE {DhtErr}) :
       \E s1 \in {ReadDHT11(Cur, dht)} :
       \E s2 \in {loopRemoteControl(s1, FALSE)} :
       \E s3 \in {loopThermostat(s2)} :
       \E s4 \in {IF s3.Page = kPage_Home THEN UpdateHomePage(s3) ELSE s3} :
       \E s \in {loopIdle(s4)} :
          LET new == IF s2.Temperature < s2.Thermostat.Temp THEN "on" ELSE "off"
          IN  /\ Commit(s)
              /\ idleTicks' = IF idleTicks < IDLE_TIME THEN idleTicks + 1 ELSE idleTicks
              /\ event' = "tick"
              /\ lastTap' = NoTap
              /\ desired' = IF s2.Thermostat.Status THEN new ELSE desired
              /\ sinceOn' = SinceOnTick(s)
              /\ sinceFlip' = IF ~s2.Thermostat.Status THEN sinceFlip
                              ELSE IF desired # "none" /\ desired # new THEN 1
                              ELSE IF sinceFlip < THERMOSTAT_HYSTERESIS THEN sinceFlip + 1
                              ELSE sinceFlip
              /\ added' = IF dht.err THEN added
                          ELSE Append(added, DHTReading(dht.temp))
              /\ UNCHANGED <<wifi, bootTemp>>
              /\ UNCHANGED forecastVars

NextHeater ==
    \/ onClick(HeaterTaps, {Config0})
    \/ HeaterTick
    \/ WiFiChange

SpecHeater == InitSensor /\ [][NextHeater]_vars /\ WF_vars(HeaterTick)

\* ========================================================================
\* Properties
\* ========================================================================

\* C1: in every reachable state the heater relay is off (RelayStatus false)
\* whenever the thermostat is off (Status false).
RelayOffWhenDisabled == ~Thermostat.Status => ~Thermostat.RelayStatus

\* the thermostat was switched off after the relay had been committed on:
\* the last desired state is on and its countdown has run out
RelayReleasedWitness ==
    /\ ~Thermostat.Status
    /\ ~Thermostat.RelayStatus
    /\ Thermostat.HeaterStatus
    /\ Thermostat.Hysteresis = 0
    /\ desired = "on"

SetpointInRange ==
    bootTemp > 0 =>
        /\ Thermostat.Temp >= TEMP_MIN
        /\ Thermostat.Temp <= TEMP_MAX
        /\ (Thermostat.Temp - bootTemp) % HalfDeg = 0

\* C4: two taps on the status button of the thermostat page, one after the
\* other, bring Status back to its value, and neither the state between
\* them nor the state after them has the relay on with the thermostat off.
StatusTaps == {Pt(160, 60), Pt(0, 30), Pt(319, 89)}

ToggleTwice ==
    Page = kPage_Thermostat =>
        \A p \in StatusTaps, q \in StatusTaps :
            LET s1 == TouchThermostat(Cur, p)
                s2 == TouchThermostat(s1, q)
            IN  /\ s1.Thermostat.Status = ~Thermostat.Status
                /\ s2.Thermostat.Status = Thermostat.Status
                /\ ~(s1.Thermostat.RelayStatus /\ ~s1.Thermostat.Status)
                /\ ~(s2.Thermostat.RelayStatus /\ ~s2.Thermostat.Status)

\* the thermostat page right after a tap that switched the thermostat off
\* while the relay was committed on
ToggleWitness ==
    /\ Page = kPage_Thermostat
    /\ event = "tap"
    /\ lastTap \in StatusTaps
    /\ ~Thermostat.Status
    /\ Thermostat.HeaterStatus
    /\ Thermostat.Hysteresis = 0

\* C5 as the specification states it: in every mode other than Home a tap
\* arms the idle timer to IDLE_TIME, and the mode has been left by the
\* sixth tick after the last tap.
NonHomeModes ==
    {kPage_Auth, kPage_Switches, kPage_Thermostat, kPage_Forecast24H, kPage_Forecast5D}

IdleTimeoutAllModes ==
    Page \in NonHomeModes =>
        /\ event = "tap" => IdleTimer = IDLE_TIME
        /\ idleTicks < IDLE_TIME

\* C5: on the login, switch and thermostat pages every tap arms the idle
\* timer to IDLE_TIME; each tick without a tap counts it down, and the
\* sixth such tick draws the home page.  On the two forecast pages a tick
\* never changes the page.
TimedPages == {kPage_Auth, kPage_Switches, kPage_Thermostat}

IdleTimeoutTimedPages ==
    [][/\ (event' = "tap" /\ Page' \in TimedPages) => IdleTimer' = IDLE_TIME
       /\ (event' = "tick" /\ Page \in TimedPages) =>
             /\ IdleTimer = IDLE_TIME - idleTicks
             /\ IF IdleTimer > 1
                THEN Page' = Page /\ IdleTimer' = IdleTimer - 1
                ELSE Page' = kPage_Home /\ IdleTimer' = 0
       /\ (event' = "tick" /\ Page \in {kPage_Forecast24H, kPage_Forecast5D}) =>
             Page' = Page]_vars

\* the login page has timed out with a digit typed and OK never tapped
IdleTimeoutWitness ==
    /\ Page = kPage_Home
    /\ event = "tick"
    /\ idleTicks = IDLE_TIME
    /\ IdleTimer = 0
    /\ pinEntry # <<>>
    /\ PIN = <<>>

\* C6 as the specification states it: while a confirmation is awaited on
\* the switch page, a tick neither leaves the switch page nor touches the
\* pending confirmation.
IdleSuppressedWhileAwaiting ==
    [][(event' = "tick" /\ Page = kPage_Switches /\ Confirm.Wait) =>
           (Page' = kPage_Switches /\ Confirm' = Confirm)]_vars

\* C6: while a confirmation is awaited on the switch page the idle timer
\* keeps counting: a tick counts it down and, on reaching zero, draws the
\* home page; the pending confirmation (Wait and Button) is left as it is.
IdleTimeoutWhileAwaiting ==
    [][(event' = "tick" /\ Page = kPage_Switches /\ Confirm.Wait) =>
           /\ Confirm' = Confirm
           /\ IF IdleTimer > 1
              THEN Page' = kPage_Switches /\ IdleTimer' = IdleTimer - 1
              ELSE Page' = kPage_Home /\ IdleTimer' = 0]_vars

\* the switch page has timed out while the confirmation was awaited
AwaitingTimedOutWitness ==
    /\ Page = kPage_Home
    /\ event = "tick"
    /\ IdleTimer = 0
    /\ Confirm.Wait

\* C7: while a confirmation is awaited, a tap outside the YES and NO regions
\* sends no switch command, leaves Confirm (Wait and Button) and the
\* switches as they are, and stays on the switch page.
OutsideYesNo ==
    {Pt(150, 150), Pt(120, 120), Pt(199, 120), Pt(120, 239), Pt(199, 239),
     Pt(60, 119), Pt(0, 119), Pt(260, 119), Pt(319, 119),
     Pt(160, 60), Pt(159, 20), Pt(100, 10), Pt(0, 0), Pt(319, 0)}

ConfirmIgnoresOtherTaps ==
    (Page = kPage_Switches /\ Confirm.Wait) =>
        \A p \in OutsideYesNo, cfg \in SwitchConfigs, oob \in OobReads :
            LET s == onClickPage(Cur, p, "0", cfg, oob)
            IN  /\ s.sent = <<>>
                /\ s.Confirm = Confirm
                /\ s.Switch = Switch
                /\ s.Page = kPage_Switches

\* a tap between the NO and YES regions, over button 4, has left the
\* confirmation asked for button 7 pending
ConfirmKeptWitness ==
    /\ Page = kPage_Switches
    /\ Confirm = [Wait |-> TRUE, Button |-> 7]
    /\ event = "tap"
    /\ lastTap = Pt(150, 150)

\* C8: on the home page a tap at (x, y) with 200 <= x < 320 and
\* 170 <= y < 240 opens the thermostat page; otherwise a tap with x < 200
\* and y >= 140 opens the 24-hour forecast; otherwise the tap opens the
\* switch page when PIN is set and the login page when it is not.
ScreenXs == {0, 1, 100, 198, 199, 200, 201, 260, 318, 319}
ScreenYs == {0, 1, 100, 138, 139, 140, 141, 168, 169, 170, 171, 200, 238, 239}

HomeTarget(p) ==
    IF p.x \in 200 .. 319 /\ p.y \in 170 .. 239 THEN kPage_Thermostat
    ELSE IF p.x \in 0 .. 199 /\ p.y \in 140 .. 239 THEN kPage_Forecast24H
    ELSE IF PIN # <<>> THEN kPage_Switches
    ELSE kPage_Auth

HomeTapTargets ==
    Page = kPage_Home =>
        \A x \in ScreenXs, y \in ScreenYs, cfg \in SwitchConfigs :
            onClickPage(Cur, Pt(x, y), "0", cfg, SwitchRec(TRUE, FALSE)).Page
                = HomeTarget(Pt(x, y))

\* the tap at (260, 200) on the home page has opened the thermostat page
HomeTapWitness ==
    /\ Page = kPage_Thermostat
    /\ event = "tap"
    /\ lastTap = Pt(260, 200)
    /\ IdleTimer = IDLE_TIME

\* C9: when OK is tapped on the login page and the server rejects the PIN
\* or cannot be reached, the home page is drawn and PIN is left as it was.
LoginFailures == {"0", "TIMEOUT", "OFFLINE"}

LoginFailureGoesHome ==
    [][(event' = "tap" /\ login' \in LoginFailures) =>
           (Page = kPage_Auth /\ Page' = kPage_Home /\ PIN' = PIN)]_vars

\* a four-digit entry has been rejected
LoginRejectedWitness ==
    /\ event = "tap"
    /\ login = "0"
    /\ Len(pinEntry) = 4
    /\ Page = kPage_Home
    /\ PIN = <<>>

\* C10 as the specification states it: when OK is tapped on the login page
\* and the server accepts, the switch page is drawn and a credential is
\* stored (PIN is not empty, which is what sends later taps on the home
\* page to the switch page), whatever the entry holds.
LoginAcceptedStoresCredential ==
    [][(event' = "tap" /\ login' = "1") =>
           (Page' = kPage_Switches /\ PIN' # <<>>)]_vars

\* the corners of the keypad cell of row r, column c
CellPoints(r, c) ==
    {Pt(c * 64 + dx, 110 + r * 64 + dy) : dx \in {0, 63}, dy \in {0, 63}}

CellOf(p) == {rc \in (0 .. 1) \X (0 .. 4) : p \in CellPoints(rc[1], rc[2])}

\* C11: in the login page a tap on the digit cell of row r, column c appends
\* the digit 5*r + c to the entry while the entry is shorter than 4 and
\* leaves a full entry as it is, so the entry never holds more than 4
\* characters; and the entry is empty on every entry into the login page.
LoginDigitEntry ==
    /\ [](Len(pinEntry) <= 4)
    /\ [](Page = kPage_Auth =>
            \A r \in 0 .. 1, c \in 0 .. 4 : \A p \in CellPoints(r, c) :
                LET s == onClickPage(Cur, p, "0", Switch, SwitchRec(TRUE, FALSE))
                IN  /\ s.Page = kPage_Auth
                    /\ s.pinEntry = IF Len(pinEntry) < 4
                                     THEN Append(pinEntry, 5 * r + c)
                                     ELSE pinEntry)
    /\ [][/\ (Page = kPage_Auth /\ event' = "tap" /\ CellOf(lastTap') # {} =>
                \A rc \in CellOf(lastTap') :
                    pinEntry' = IF Len(pinEntry) < 4
                                THEN Append(pinEntry, 5 * rc[1] + rc[2])
                                ELSE pinEntry)
          /\ (Page # kPage_Auth /\ Page' = kPage_Auth => pinEntry' = <<>>)]_vars

\* a fifth digit tap (on 2) was ignored: the entry still ends with the 9
\* typed fourth
LoginFullEntryWitness ==
    /\ Page = kPage_Auth
    /\ event = "tap"
    /\ lastTap = Pt(150, 150)
    /\ pinEntry = <<2, 9, 2, 9>>

\* the points tried on a forecast page: the corners of the screen, its
\* centre and the borders of the regions of the home page
ForecastPoints == {Pt(x, y) : x \in ScreenXs, y \in ScreenYs}

\* C12: a tap on the 24-hour forecast, wherever it falls, shows the 5-day
\* forecast, a tap on the 5-day forecast shows the home page, and so two
\* taps from the 24-hour forecast end on the home page.
ForecastTapsAdvance ==
    /\ [](Page = kPage_Forecast24H =>
            \A p \in ForecastPoints :
                LET s == onClickPage(Cur, p, "0", Switch, SwitchRec(TRUE, FALSE))
                IN  /\ s.Page = kPage_Forecast5D
                    /\ \A q \in ForecastTaps :
                          onClickPage(s, q, "0", Switch, SwitchRec(TRUE, FALSE)).Page
                              = kPage_Home)
    /\ [](Page = kPage_Forecast5D =>
            \A p \in ForecastPoints :
                onClickPage(Cur, p, "0", Switch, SwitchRec(TRUE, FALSE)).Page = kPage_Home)
    /\ [][event' = "tap" =>
            /\ (Page = kPage_Forecast24H => Page' = kPage_Forecast5D)
            /\ (Page = kPage_Forecast5D => Page' = kPage_Home)]_vars

\* the home page was reached by a tap on a corner of the screen: no tap on
\* another page ends there with this point
ForecastLeftWitness ==
    /\ Page = kPage_Home
    /\ event = "tap"
    /\ lastTap = Pt(319, 239)
    /\ login = ""

Restarts == {"tapboot", "longboot"}

\* C13: a long press on the home page restarts the device; a long press on
\* any other page restarts nothing and changes no state.
LongPressRestartsFromHome ==
    /\ [](LongClickRestarts(Cur) <=> Page = kPage_Home)
    /\ [][/\ (event' = "longboot" => Page = kPage_Home)
          /\ (event' = "long" =>
                /\ Page # kPage_Home
                /\ UNCHANGED <<Page, IdleTimer, PIN, pinEntry, Switch, Confirm,
                               Thermostat, Store, Temperature, TempAverage, HumiAverage,
                               relayPin, wifi>>)]_vars

\* a long press on the login page left two typed digits where they were
LongPressIgnoredWitness ==
    /\ event = "long"
    /\ Page = kPage_Auth
    /\ pinEntry = <<2, 2>>

\* C14 as stated: only a long press on the home page restarts the device.
OnlyLongPressRestarts ==
    [][event' \in Restarts => event' = "longboot" /\ Page = kPage_Home]_vars

\* C14 as the code has it: the device restarts on a long press on the home
\* page and on a tap received while Wi-Fi is not connected, whatever the
\* page; no tap received with Wi-Fi connected, no tick and no change of the
\* Wi-Fi link restarts it.
RestartsByLongPressOrOfflineTap ==
    /\ [](ClickRestarts(wifi) <=> ~wifi)
    /\ [][/\ (event' \in Restarts =>
                \/ event' = "longboot" /\ Page = kPage_Home
                \/ event' = "tapboot" /\ ~wifi)
          /\ (event' \in {"tap", "tick", "wifi"} =>
                /\ bootTemp' = bootTemp
                /\ (event' # "wifi" => wifi))]_vars

\* a tap on the switch panel, with Wi-Fi lost, restarted the device into a
\* boot that found Wi-Fi again: the page is Home and the credential is gone
OfflineTapRestartWitness ==
    /\ event = "tapboot"
    /\ Page = kPage_Home
    /\ wifi

\* the sum of the entries of the buffer: exact, and accumulated in float
\* from the first entry to the last
RECURSIVE SumTo(_, _)
SumTo(readings, n) == IF n = 0 THEN 0 ELSE SumTo(readings, n - 1) + readings[n - 1]

RECURSIVE FloatSumTo(_, _)
FloatSumTo(readings, n) ==
    IF n = 0 THEN 0 ELSE F32(FloatSumTo(readings, n - 1) + readings[n - 1])

\* C15: after Init() and any sequence of AddValue calls the running sum is
\* the sum of the 20 entries of the buffer (exact, or accumulated in float)
\* and the write cursor is in 0..19.
RunningSumIsBufferSum ==
    /\ TempAverage.cnt \in 0 .. (AVERAGE_MAX - 1)
    /\ \/ TempAverage.sum = SumTo(TempAverage.readings, AVERAGE_MAX)
       \/ TempAverage.sum = FloatSumTo(TempAverage.readings, AVERAGE_MAX)

\* the sum of a sequence of values, accumulated in float in their order
RECURSIVE FloatSeqSum(_)
FloatSeqSum(seq) ==
    IF seq = <<>> THEN 0
    ELSE F32(FloatSeqSum(SubSeq(seq, 1, Len(seq) - 1)) + seq[Len(seq)])

\* C16: while no more than 20 values have been added since Init(), the mean
\* is the sum of the values added divided by 20, and not by their number.
MeanDividesByCapacity ==
    Len(added) <= AVERAGE_MAX =>
        /\ GetAverage(TempAverage) = FloatSeqSum(added) \div AVERAGE_MAX
        /\ (Len(added) \in 1 .. (AVERAGE_MAX - 1) =>
                GetAverage(TempAverage) # FloatSeqSum(added) \div Len(added))

\* three readings in a fresh buffer: their mean would be 10069825, the mean
\* reported is 1510473
MeanWarmUpWitness ==
    /\ added = <<DHTFloat22, DHTFloat23, DHTFloat22>>
    /\ GetAverage(TempAverage) = 1510473

\* the calendar days (days since 1970-01-01) of the items of a stream, and
\* the k-th of them, k = 0 for the first
DaysOf(stream) == {stream[i].dt \div 86400 : i \in 1 .. Len(stream)}
DayNo(stream, k) ==
    CHOOSE x \in DaysOf(stream) : Cardinality({y \in DaysOf(stream) : y < x}) = k

\* the last run of Get5DForecast parsed a stream of 40 items and went on to
\* the daily values
FetchCompleted == fetch.conn = "stream" /\ ~fetch.again /\ Len(fetch.stream) = OWM_ITEMS

\* the days of Forecast5D that hold a reading
Populated == {d \in 0 .. 5 : \E h \in 0 .. 7 : Forecast5D[d].temp[h] # EMPTY_FIELD}

\* a day of Forecast5D as "Reset forecast memory" leaves it
EmptyDay(b) ==
    /\ b.tmin = EMPTY_FIELD /\ b.tmax = EMPTY_FIELD /\ b.avgh = Pct(EMPTY_FIELD)
    /\ b.nday = 0 /\ b.icon = ""
    /\ \A h \in 0 .. 7 : b.temp[h] = EMPTY_FIELD /\ b.humi[h] = Pct(EMPTY_FIELD)

FiveDays == FetchCompleted /\ Cardinality(DaysOf(fetch.stream)) = 5

FiveDaysPopulated == FiveDays => Populated = 0 .. 4
FiveDaysWeekdays ==
    FiveDays => \A k \in 0 .. 4 : Forecast5D[k].nday = (DayNo(fetch.stream, k) + 4) % 7
SixthDayEmpty == FiveDays => EmptyDay(Forecast5D[5])

\* C17: after a completed fetch of 40 items that span exactly 5 calendar
\* days, exactly the days 0..4 of Forecast5D hold readings, day k has the
\* day of the week of the k-th calendar day, and the 6th day is as the reset
\* left it, every field at the value that marks it empty.
FiveDayBuckets == FiveDaysPopulated /\ FiveDaysWeekdays /\ SixthDayEmpty

\* the readings held by Forecast5D
TempSlots == {dh \in (0 .. 5) \X (0 .. 7) : Forecast5D[dh[1]].temp[dh[2]] # EMPTY_FIELD}
HumiSlots == {dh \in (0 .. 5) \X (0 .. 7) : Forecast5D[dh[1]].humi[dh[2]] # Pct(EMPTY_FIELD)}

\* no daily value has been computed since the reset
NoDailyValues ==
    \A d \in 0 .. 5 : /\ Forecast5D[d].tmin = EMPTY_FIELD
                       /\ Forecast5D[d].tmax = EMPTY_FIELD
                       /\ Forecast5D[d].avgh = Pct(EMPTY_FIELD)

\* C18: a run of Get5DForecast whose stream ends with a number of dt items
\* other than 40 ends in a new run; every run starts from scratch: the
\* listener counts the items of its own stream only and Forecast5D holds the
\* readings of that stream only; the daily values are computed and
\* LastTimeUpdated is set only by a run that counted exactly 40 items.
ShortStreamFetchedAgain ==
    [][fetch'.runs = fetch.runs + 1 =>
        /\ (fetch.again => fetch'.runs > 1)
        /\ (fetch'.conn = "stream" =>
                /\ fetch'.again = (Len(fetch'.stream) # OWM_ITEMS)
                /\ listener'._count = Len(fetch'.stream)
                /\ Cardinality(TempSlots') = Len(fetch'.stream)
                /\ Cardinality(HumiSlots') = Len(fetch'.stream))
        /\ (fetch'.conn # "stream" =>
                /\ ~fetch'.again
                /\ listener'._count = 0
                /\ TempSlots' = {} /\ HumiSlots' = {})
        /\ (listener'._count # OWM_ITEMS =>
                /\ NoDailyValues'
                /\ Forecast5D'[0].LastTimeUpdated = Forecast5D[0].LastTimeUpdated)
        /\ (listener'._count = OWM_ITEMS =>
                /\ ~NoDailyValues'
                /\ Forecast5D'[0].LastTimeUpdated >= Forecast5D[0].LastTimeUpdated
                /\ Forecast5D'[0].LastTimeUpdated \in Nows)]_vars

\* the run that a stream of 37 items started has itself parsed a stream of
\* 37 items: it counted 37 and is to be followed by another run
FetchedAgainWitness ==
    /\ fetch.runs = 2
    /\ fetch.again
    /\ Len(fetch.stream) = OWM_ITEMS - 3
    /\ listener._count = OWM_ITEMS - 3
    /\ NoDailyValues

\* the slots of a day that hold a temperature, a humidity
DayTemps(b) == {b.temp[h] : h \in {k \in 0 .. 7 : b.temp[k] # EMPTY_FIELD}}
RECURSIVE HumiSum(_, _)
HumiSum(b, h) ==
    IF h = 0 THEN 0
    ELSE HumiSum(b, h - 1) + (IF b.humi[h - 1] # Pct(EMPTY_FIELD) THEN b.humi[h - 1] ELSE 0)
HumiCount(b) == Cardinality({h \in 0 .. 7 : b.humi[h] # Pct(EMPTY_FIELD)})

\* C19: after a completed fetch, tmin and tmax of every day that holds a
\* reading are the smallest and the largest of the temperatures it holds,
\* and avgh of every day is the sum of the humidities it holds divided by 8,
\* whatever their number.
DailyValuesSkipEmpty ==
    FetchCompleted =>
        \A d \in 0 .. 5 :
            LET b == Forecast5D[d]
            IN  /\ (DayTemps(b) # {} =>
                       /\ b.tmin \in DayTemps(b) /\ \A t \in DayTemps(b) : b.tmin <= t
                       /\ b.tmax \in DayTemps(b) /\ \A t \in DayTemps(b) : b.tmax >= t)
                /\ 8 * b.avgh = HumiSum(b, 8)

\* a completed fetch whose first day holds 5 humidities and 3 empty slots:
\* avgh is their sum over 8, not over 5
FiveOfEightWitness ==
    /\ FetchCompleted
    /\ HumiCount(Forecast5D[0]) = 5
    /\ 8 * Forecast5D[0].avgh = HumiSum(Forecast5D[0], 8)
    /\ 5 * Forecast5D[0].avgh # HumiSum(Forecast5D[0], 8)

\* C20: at a tick where the level read from the remote-control line differs
\* from the stored one, the stored level takes the reading and the thermostat
\* ends on exactly when the reading is on, with the relay released if that
\* turns it off; at a tick where the reading equals the stored level the
\* step changes neither the status nor the relay, also when a tap on the
\* status button has made the status differ from the stored level.
RemoteControlActsOnChange ==
    /\ [](\A TRC \in BOOLEAN :
            LET s == loopRemoteControl(Cur, TRC)
            IN  IF TRC # Thermostat.RemoteControl
                THEN /\ s.Thermostat.RemoteControl = TRC
                     /\ s.Thermostat.Status = TRC
                     /\ (~TRC => ~s.Thermostat.RelayStatus /\ ~s.relayPin)
                     /\ (TRC => /\ s.Thermostat.RelayStatus = Thermostat.RelayStatus
                                 /\ s.relayPin = relayPin)
                ELSE /\ s.Thermostat = Thermostat
                     /\ s.relayPin = relayPin)
    /\ [][event' = "tick" =>
            IF Thermostat'.RemoteControl # Thermostat.RemoteControl
            THEN /\ Thermostat'.Status = Thermostat'.RemoteControl
                 /\ (~Thermostat'.Status => ~Thermostat'.RelayStatus /\ ~relayPin')
            ELSE Thermostat'.Status = Thermostat.Status]_vars

\* the thermostat was switched on by a tap while the line stays off: the
\* ticks that follow leave it on
RemoteControlUnchangedWitness ==
    /\ event = "tick"
    /\ Thermostat.Status
    /\ ~Thermostat.RemoteControl
    /\ idleTicks >= 2

\* the corners of the minus and plus buttons of the thermostat page
MinusPoints == {Pt(0, 180), Pt(119, 180), Pt(0, 239), Pt(119, 239), Pt(60, 200)}
PlusPoints == {Pt(200, 180), Pt(319, 180), Pt(200, 239), Pt(319, 239), Pt(260, 200)}

\* C21: a tap on minus with the setpoint above 15.0, or on plus with the
\* setpoint below 30.0, moves the setpoint by 0.5 and writes it to
\* ThermostatStore in the same handler, so the stored setpoint equals
\* Thermostat.Temp after it; minus at 15.0 and plus at 30.0 change neither
\* the setpoint nor the store.
AdjustPersists ==
    /\ [](Page = kPage_Thermostat =>
            /\ \A p \in MinusPoints :
                  LET s == onClickPage(Cur, p, "0", Switch, SwitchRec(TRUE, FALSE))
                  IN  IF Thermostat.Temp > TEMP_MIN
                      THEN /\ s.Thermostat.Temp = Thermostat.Temp - HalfDeg
                           /\ s.Store = s.Thermostat.Temp
                      ELSE s.Thermostat.Temp = Thermostat.Temp /\ s.Store = Store
            /\ \A p \in PlusPoints :
                  LET s == onClickPage(Cur, p, "0", Switch, SwitchRec(TRUE, FALSE))
                  IN  IF Thermostat.Temp < TEMP_MAX
                      THEN /\ s.Thermostat.Temp = Thermostat.Temp + HalfDeg
                           /\ s.Store = s.Thermostat.Temp
                      ELSE s.Thermostat.Temp = Thermostat.Temp /\ s.Store = Store)
    /\ [][event' = "tap" =>
            /\ (Thermostat'.Temp # Thermostat.Temp =>
                    /\ Page = kPage_Thermostat
                    /\ lastTap' \in MinusPoints \cup PlusPoints
                    /\ Store' = Thermostat'.Temp)
            /\ (Thermostat'.Temp = Thermostat.Temp => Store' = Store)]_vars

\* plus was tapped at the setpoint 15.0 loaded at boot: setpoint and store
\* hold 15.5
AdjustStoredWitness ==
    /\ event = "tap"
    /\ lastTap = Pt(200, 239)
    /\ bootTemp = TEMP_MIN
    /\ Thermostat.Temp = TEMP_MIN + HalfDeg
    /\ Store = TEMP_MIN + HalfDeg

\* the setpoints minus and plus can store: 15.0 to 30.0 in steps of 0.5
Adjustable == {t \in TEMP_MIN .. TEMP_MAX : t % HalfDeg = 0}

\* C22: a restart whose setup() sets up the thermostat loads the setpoint
\* that ThermostatStore held before it, for every stored setpoint from 15.0
\* to 30.0 in steps of 0.5.
SetpointSurvivesRestart ==
    [][(event' \in Restarts /\ wifi' /\ Store \in Adjustable) =>
           (Thermostat'.Temp = Store /\ Store' = Store)]_vars

\* the same, for the stored setpoints below 30.0
SetpointBelowMaxSurvivesRestart ==
    [][(event' \in Restarts /\ wifi' /\ Store \in Adjustable \ {TEMP_MAX}) =>
           (Thermostat'.Temp = Store /\ Store' = Store)]_vars

\* the page that shows a weather series
ViewOf(series) ==
    CASE series = "current" -> kPage_Home
      [] series = "24h"     -> kPage_Forecast24H
      [] series = "5d"      -> kPage_Forecast5D

\* C23 as stated: a request for a weather series is made only when the
\* series is at least OWM_UDPATE_FREQ old, and only in the step that opens
\* the page of the series (a restart opens the home page), never in a tick
\* that finds the page displayed.
RefetchOnlyOnActivation ==
    [][\A i \in 1 .. Len(calls') :
          /\ calls'[i].age >= OWM_UDPATE_FREQ
          /\ Page' = ViewOf(calls'[i].series)
          /\ (Page # Page' \/ event' \in Restarts)]_vars

\* C23 as the code has it: a request for a weather series is made only when
\* the series is at least OWM_UDPATE_FREQ old.  For the 24-hour and the
\* 5-day forecast the age is tested only by the tap that opens the page; a
\* tick never asks for them.  For the current weather the age is tested
\* when the home page is drawn (by a tap, by the idle timeout or by setup)
\* and also by every tick that finds the home page displayed and the minute
\* of the clock changed.
RefetchOnActivationOrHomeMinute ==
    [][\A i \in 1 .. Len(calls') :
          /\ calls'[i].age >= OWM_UDPATE_FREQ
          /\ (calls'[i].series \in {"24h", "5d"} =>
                /\ event' = "tap"
                /\ Page # Page'
                /\ Page' = ViewOf(calls'[i].series))
          /\ (calls'[i].series = "current" =>
                \/ event' \in Restarts
                \/ Page # kPage_Home /\ Page' = kPage_Home
                \/ /\ event' = "tick"
                   /\ Page = kPage_Home
                   /\ nowTime # ClockText(clock'))]_vars

\* the first tick after a restart finds the home page displayed, the minute
\* changed and the current weather an hour old, and asks for it
HomeTickFetchWitness ==
    /\ event = "tick"
    /\ idleTicks = 1
    /\ Page = kPage_Home
    /\ Len(calls) = 1
    /\ calls[1].series = "current"
    /\ calls[1].age >= OWM_UDPATE_FREQ
    /\ calls[1].age < clock

\* what a request answered at the time now stores
CurrentAt(now) ==
    LET item == OWMListAt(now, 1)[1]
    IN  [temp |-> item.temp, humi |-> item.humi, iconID |-> item.icon,
         LastTimeUpdated |-> now]
SlotAt(now, h) == OWMListAt(now, 8)[h + 1]

\* C24: between two restarts WeatherForecast and Forecast24H change only in
\* a step that made a request for them which was answered; the answer
\* replaces every field (all 8 slots of the 24-hour forecast) and sets
\* LastTimeUpdated to the time of the step.  A request that timed out or
\* found the network off line leaves the data and LastTimeUpdated as they
\* were: the series is still an hour old, and the next test of its age, at
\* any later time, makes a request again.
FetchReplacesOnlyOnSuccess ==
    [][event' \notin Restarts =>
        /\ (WeatherForecast' # WeatherForecast =>
                \E i \in 1 .. Len(calls') :
                    calls'[i].series = "current" /\ calls'[i].net = "ok")
        /\ (Forecast24H' # Forecast24H =>
                \E i \in 1 .. Len(calls') :
                    calls'[i].series = "24h" /\ calls'[i].net = "ok")
        /\ \A i \in 1 .. Len(calls') :
              /\ (calls'[i].series = "current" /\ calls'[i].net = "ok" =>
                      WeatherForecast' = CurrentAt(clock'))
              /\ (calls'[i].series = "24h" /\ calls'[i].net = "ok" =>
                      /\ \A h \in 0 .. 7 :
                            /\ Forecast24H'[h].temp = SlotAt(clock', h).temp
                            /\ Forecast24H'[h].timestamp = SlotAt(clock', h).dt
                            /\ Forecast24H'[h].icon = SlotAt(clock', h).icon
                      /\ Forecast24H'[0].LastTimeUpdated = clock')
              /\ (calls'[i].series = "current" /\ calls'[i].net # "ok" =>
                      /\ WeatherForecast' = WeatherForecast
                      /\ \A t \in WeatherTimes :
                            t >= clock' =>
                                Len(UpdateHomePageWeather(
                                        [WCur' EXCEPT !.nowTime = NoTime],
                                        [now |-> t, net |-> "ok"]).calls) = 1)
              /\ (calls'[i].series = "24h" /\ calls'[i].net # "ok" =>
                      /\ Forecast24H' = Forecast24H
                      /\ \A t \in WeatherTimes :
                            t >= clock' =>
                                Len(Show24HForecast(WCur', FALSE,
                                        [now |-> t, net |-> "ok"]).calls) = 1)]_vars

\* the 24-hour page was opened an hour after its forecast was received and
\* the request timed out: the forecast received is still held
FailedFetchKeepsWitness ==
    /\ event = "tap"
    /\ Page = kPage_Forecast24H
    /\ Len(calls) = 1
    /\ calls[1].series = "24h"
    /\ calls[1].net = "timeout"
    /\ Forecast24H[0].LastTimeUpdated > 0
    /\ Forecast24H[0].timestamp > 0

\* C25: at every tick that finds the thermostat enabled (after the
\* remote-control step), the desired relay state the evaluation computes is
\* mean < setpoint, with mean the rolling mean of the sensor values as of
\* that tick, whatever page is displayed.
EvaluateUsesCurrentMean ==
    [][(event' = "tick" /\ Thermostat'.Status) =>
           desired' = IF GetAverage(TempAverage') < Thermostat'.Temp
                      THEN "on" ELSE "off"]_vars

\* the same, for the value of Temperature that the tick finds
EvaluateUsesTemperature ==
    [][(event' = "tick" /\ Thermostat'.Status) =>
           desired' = IF Temperature < Thermostat'.Temp THEN "on" ELSE "off"]_vars

\* the slot drawn under a point of the screen: 2 columns of SWBTN_WIDTH and
\* 4 rows of SWBTN_HEIGHT below the status bar; NoSlot above them
NoSlot == 0 - 1
SlotUnder(p) ==
    IF p.y >= SWBTN_TOP_Y /\ p.y < SWBTN_TOP_Y + 4 * SWBTN_HEIGHT /\ p.x \in 0 .. 319
    THEN 2 * ((p.y - SWBTN_TOP_Y) \div SWBTN_HEIGHT) + (p.x \div SWBTN_WIDTH)
    ELSE NoSlot

NoHit(p) == isIntersect(p.x, p.y, 1, 1, 0, 120, 120, 120)
YesHit(p) == isIntersect(p.x, p.y, 1, 1, 200, 120, 120, 120)

\* a command sent by the tap of this step is one the panel allows: the tap
\* fell on the visible slot c that asks no confirmation, or on YES with the
\* confirmation pending for the slot c
SentAllowed(c) ==
    /\ Page = kPage_Switches
    /\ c \in 0 .. 7
    /\ \/ /\ ~Confirm.Wait
          /\ SlotUnder(lastTap') = c
          /\ ~Switch[c].Hidden
          /\ ~Switch[c].AskConfirm
       \/ /\ Confirm.Wait
          /\ YesHit(lastTap')
          /\ Confirm.Button = c

\* what a tap on the panel does when no confirmation is pending and the tap
\* is on the slot c
SlotTapEffect(c) ==
    IF Switch[c].Hidden THEN sent' = <<>> /\ Confirm' = Confirm
    ELSE IF Switch[c].AskConfirm
         THEN sent' = <<>> /\ Confirm' = [Wait |-> TRUE, Button |-> c]
         ELSE sent' = <<c>> /\ Confirm' = Confirm

\* C26: every switch command sent is sent by a tap on a visible slot that
\* asks no confirmation, for that slot, or by a tap on YES, for the slot of
\* the pending confirmation; a tap on a hidden slot sends nothing, and a
\* tap on a slot that asks confirmation sends nothing and leaves the
\* confirmation pending for that slot.
SwitchCommandsAllowed ==
    [][event' = "tap" =>
        /\ \A i \in 1 .. Len(sent') : SentAllowed(sent'[i])
        /\ (Page = kPage_Switches /\ ~Confirm.Wait /\ SlotUnder(lastTap') # NoSlot =>
                SlotTapEffect(SlotUnder(lastTap')))]_vars

\* the same, for the taps that fall on the 8 slots and the confirmations
\* they leave pending
SwitchCommandsAllowedOnSlots ==
    [][(/\ event' = "tap"
        /\ Page = kPage_Switches
        /\ IF Confirm.Wait THEN Confirm.Button \in 0 .. 7
           ELSE SlotUnder(lastTap') # NoSlot) =>
        /\ \A i \in 1 .. Len(sent') : SentAllowed(sent'[i])
        /\ (~Confirm.Wait => SlotTapEffect(SlotUnder(lastTap')))]_vars

\* C27: with a confirmation pending on the switch page, a tap on NO sends
\* no command and a tap on YES sends one command, for the slot of the
\* confirmation; after either the switch page is displayed and no
\* confirmation is pending.
ConfirmYesNo ==
    /\ [](Page = kPage_Switches /\ Confirm.Wait =>
            \A cfg \in SwitchConfigs, oob \in OobReads :
                /\ \A p \in {q \in SwitchTaps \cup OutsideYesNo : NoHit(q)} :
                      LET s == onClickPage(Cur, p, "0", cfg, oob)
                      IN  /\ s.sent = <<>>
                          /\ s.Page = kPage_Switches
                          /\ ~s.Confirm.Wait
                /\ \A p \in {q \in SwitchTaps \cup OutsideYesNo : YesHit(q)} :
                      LET s == onClickPage(Cur, p, "0", cfg, oob)
                      IN  /\ s.sent = <<Confirm.Button>>
                          /\ s.Page = kPage_Switches
                          /\ ~s.Confirm.Wait)
    /\ [][(event' = "tap" /\ Page = kPage_Switches /\ Confirm.Wait) =>
            /\ (NoHit(lastTap') =>
                    sent' = <<>> /\ Page' = kPage_Switches /\ ~Confirm'.Wait)
            /\ (YesHit(lastTap') =>
                    /\ sent' = <<Confirm.Button>>
                    /\ Page' = kPage_Switches
                    /\ ~Confirm'.Wait)]_vars

\* YES was tapped with the confirmation pending for the switch 7: its
\* command is the one sent
ConfirmYesWitness ==
    /\ event = "tap"
    /\ Page = kPage_Switches
    /\ lastTap = Pt(260, 200)
    /\ sent = <<7>>
    /\ ~Confirm.Wait

\* points of the screen: the borders of the status bar, of the rows and of
\* the columns of the panel
PanelXs == {0, 1, 159, 160, 161, 318, 319}
PanelYs == {0, 10, 19, 20, 21, 74, 75, 129, 130, 184, 185, 238, 239}
PanelPoints == {Pt(x, y) : x \in PanelXs, y \in PanelYs}

\* C28: on the switch page with no confirmation pending, the index with
\* which a tap at any point of the 320x240 screen looks up Switch[] is in
\* 0..7 and is 2 * row + column of the grid.
TapResolvesToSlot ==
    (Page = kPage_Switches /\ ~Confirm.Wait) =>
        \A p \in PanelPoints :
            /\ FindButton(p) \in 0 .. 7
            /\ FindButton(p) = 2 * ((p.y - SWBTN_TOP_Y) \div SWBTN_HEIGHT)
                                   + (p.x \div SWBTN_WIDTH)

\* the same, for the points below the status bar
TapBelowBarResolvesToSlot ==
    (Page = kPage_Switches /\ ~Confirm.Wait) =>
        \A p \in {q \in PanelPoints : q.y >= SWBTN_TOP_Y} :
            /\ FindButton(p) \in 0 .. 7
            /\ FindButton(p) = SlotUnder(p)

\* C29: a run of Get5DForecast ends in a new run exactly when its stream
\* was parsed with a count of dt items other than 40, so the call returns
\* only after a run that was refused, timed out or counted 40; nothing but
\* the count decides it, however many runs came before; and until the call
\* returns the only steps are its runs: no tick and no touch event is
\* served, and the page and the rest of the program state stay as they were.
RetriedUntilForty ==
    /\ [][fetch'.runs = fetch.runs + 1 =>
            /\ fetch'.again = (fetch'.conn = "stream" /\ listener'._count # OWM_ITEMS)
            /\ fetch'.depth = IF fetch.again THEN fetch.depth + 1 ELSE 1]_vars
    /\ [][fetch.again =>
            /\ fetch'.runs = fetch.runs + 1
            /\ UNCHANGED <<progVars, event, lastTap, idleTicks>>]_vars
    /\ [][fetch'.runs = fetch.runs => (~fetch.again /\ ~fetch'.again)]_vars

\* three runs in a row have counted 37 items each, and the call has not
\* returned
ThirdAttemptWitness ==
    /\ fetch.depth = 3
    /\ fetch.again
    /\ listener._count = OWM_ITEMS - 3
    /\ Page = kPage_Forecast5D
    /\ event = "tap"

\* C30: between two states with the thermostat on, RelayStatus changes
\* only in a tick that leaves the countdown Thermostat.Hysteresis at zero,
\* and the value it takes, which is also the level written to the relay
\* pin, is the desired state that the evaluation of that tick computed.
RelayCommitsAtZero ==
    [][(/\ Thermostat.Status
        /\ Thermostat'.Status
        /\ Thermostat'.RelayStatus # Thermostat.RelayStatus) =>
            /\ event' = "tick"
            /\ Thermostat'.Hysteresis = 0
            /\ Thermostat'.RelayStatus = (desired' = "on")
            /\ Thermostat'.RelayStatus = Thermostat'.HeaterStatus
            /\ relayPin' = Thermostat'.RelayStatus]_vars

\* the relay is on under a running thermostat: a tick has committed it at
\* the end of a countdown, with the desired state still on
RelayCommittedWitness ==
    /\ event = "tick"
    /\ Thermostat.Status
    /\ Thermostat.RelayStatus
    /\ relayPin
    /\ Thermostat.Hysteresis = 0
    /\ desired = "on"

\* the rolling mean of the sensor values is at or above the setpoint
SensedWarm == GetAverage(TempAverage) >= Thermostat.Temp

\* C31: if from some state on the rolling mean of the sensor values stays at
\* or above the setpoint, the relay does not stay on for ever: it is off
\* again and again, whatever page is displayed and whether Wi-Fi is
\* connected or not.
HeaterReleasedWhenWarm == <>[]SensedWarm => []<>(~Thermostat.RelayStatus)

\* the same with Wi-Fi connected for ever
HeaterReleasedWhenWarmOnline ==
    (<>[]SensedWarm /\ <>[]wifi) => []<>(~Thermostat.RelayStatus)

\* the same with Wi-Fi connected and the home page displayed for ever
HeaterReleasedWhenWarmOnHome ==
    (<>[]SensedWarm /\ <>[](wifi /\ Page = kPage_Home)) => []<>(~Thermostat.RelayStatus)

\* C32: whatever values the decoder delivers and in whatever order, every
\* store into Forecast5D uses a day index d in 0..5 and a slot h in 0..7.
StoresInsideForecast5D == \A i \in 1 .. Len(stored) : InStore(stored[i])

\* the same for the values that come after a first dt value and while the
\* listener has counted at most 6 days and 8 items in the day
StoresInsideWhenListInRange ==
    [][\A i \in 1 .. Len(stored') :
          (listener.d \in 0 .. 5 /\ listener'.d \in 0 .. 5 /\ listener.h \in 0 .. 7)
              => InStore(stored'[i])]_vars

\* a run of Get5DForecast that ends without a stream: the connection is
\* refused or no byte arrives within 2 s
FailedFetch5D ==
    /\ fetch'.runs = fetch.runs + 1
    /\ fetch'.conn \in {"refused", "timeout"}

\* C33: a run of Get5DForecast that ends without a stream, after a run that
\* has decoded a forecast of 40 items, leaves Forecast5D as that run left it:
\* readings, daily values, icons and days.
FailedFetch5DKeepsForecast ==
    [][(FailedFetch5D /\ FetchCompleted) => Forecast5D' = Forecast5D]_vars

\* what such a run does keep: the time of the last completed fetch
FailedFetch5DKeepsTime ==
    [][FailedFetch5D =>
          \A d \in 0 .. 5 : Forecast5D'[d].LastTimeUpdated = Forecast5D[d].LastTimeUpdated]_vars

\* what it does to the rest: every day is as the reset leaves it
FailedFetch5DEmptiesForecast ==
    [][FailedFetch5D => \A d \in 0 .. 5 : EmptyDay(Forecast5D'[d])]_vars

\* C34: after every change of Thermostat.Status from false to true, by the
\* status button or by the remote-control line, the relay stays off until
\* THERMOSTAT_HYSTERESIS evaluations of the thermostat have run: whenever
\* the relay is on, at least that many have run since the thermostat was
\* last switched on.
RelayOffAfterEnabling == Thermostat.RelayStatus => sinceOn >= THERMOSTAT_HYSTERESIS

\* C35: Confirm.Wait is true only on the switch page: in every reachable
\* state with another page displayed it is false.
AwaitingOnlyOnSwitchPage == Page # kPage_Switches => ~Confirm.Wait

\* the same for every step but the idle timeout: a tap, a long press, a
\* restart or a change of the Wi-Fi link never leaves Confirm.Wait true on
\* another page than the switch page if it was not so before
AwaitingLeftOnlyByTimeout ==
    [][(Page' # kPage_Switches /\ Confirm'.Wait /\ ~(Page # kPage_Switches /\ Confirm.Wait))
          => (event' = "tick" /\ Page = kPage_Switches /\ Confirm.Wait
              /\ Page' = kPage_Home)]_vars

RelayPinWrittenWithStatus ==
    [][relayPin' # relayPin => Thermostat'.RelayStatus # Thermostat.RelayStatus]_vars

\* the thermostat page and the switch page
TappedPages == {kPage_Thermostat, kPage_Switches}

\* C37: a tap on the thermostat page or on the switch page never changes
\* Page, and the only step that leaves one of these two pages is the idle
\* timeout to the home page.
TapKeepsTimedPage ==
    [][(Page \in TappedPages /\ Page' # Page)
          => (event' = "tick" /\ Page' = kPage_Home)]_vars

\* C37, amended: a tap received with Wi-Fi connected on one of the two
\* pages never changes Page; the steps that leave them are the idle timeout
\* to the home page and the restart by a tap received with Wi-Fi down.
OnlineTapKeepsTimedPage ==
    [][/\ (Page \in TappedPages /\ event' = "tap") => Page' = Page
       /\ (Page \in TappedPages /\ Page' # Page)
             => \/ event' = "tick" /\ IdleTimer = 1 /\ Page' = kPage_Home
                \/ event' = "tapboot" /\ ~wifi /\ Page' \in {kPage_Home, kPage_None}]_vars

\* a tap on the switch page has answered a confirmation with YES: a message
\* is sent, the confirmation is over and the page is still the switch page
TapAnsweredOnSwitchPage ==
    /\ event = "tap" /\ Page = kPage_Switches
    /\ isIntersect(lastTap.x, lastTap.y, 1, 1, 200, 120, 120, 120)
    /\ ~Confirm.Wait /\ Confirm.Button = 0 - 1
    /\ sent # <<>> /\ sent[Len(sent)] \in 0 .. 7
    /\ Switch[sent[Len(sent)]].AskConfirm

\* C38: Page is never kPage_Config: no tap, long press, tick, restart or
\* answer of a server leads to it.
NeverConfigPage == Page # kPage_Config

\* taps have opened the 24-hour page and then the 5-day page, and a long
\* press there has changed nothing
LongPressOnForecast5D ==
    /\ event = "long"
    /\ Page = kPage_Forecast5D
    /\ IdleTimer = IDLE_TIME

\* C39: a tick whose sensor read fails gives no value to the filters:
\* TempAverage and HumiAverage (buffer, sum and cursor) are unchanged, and
\* the remote-control test, the thermostat evaluation, the refresh of the
\* home page and the idle countdown of that tick still run.
FailedReadAddsNoSample ==
    [][(event' = "tick" /\ added' = added)
          => /\ TempAverage' = TempAverage
             /\ HumiAverage' = HumiAverage
             /\ \E TRC \in BOOLEAN :
                    LET s2 == loopRemoteControl(Cur, TRC)
                        s3 == loopThermostat(s2)
                        s4 == IF s3.Page = kPage_Home THEN UpdateHomePage(s3) ELSE s3
                        s  == loopIdle(s4)
                    IN  /\ Thermostat' = s.Thermostat
                        /\ relayPin' = s.relayPin
                        /\ Temperature' = s.Temperature
                        /\ Page' = s.Page
                        /\ IdleTimer' = s.IdleTimer]_vars

\* every read since power-on has failed: the filters are as Init() left
\* them, and the ticks have counted the hysteresis down, closed the relay
\* and brought the home page back
RelayClosedWithoutSamples ==
    /\ event = "tick"
    /\ added = <<>>
    /\ TempAverage = AvgInit /\ HumiAverage = AvgInit
    /\ Thermostat.Status /\ Thermostat.RelayStatus
    /\ Page = kPage_Home

\* C40: between two runs of loop(), whenever the login page, the switch
\* page or the thermostat page is displayed IdleTimer is between 1 and
\* IDLE_TIME: the countdown never shows 0 on such a page and never wraps.
IdleTimerArmedOnTimedPages ==
    Page \in {kPage_Auth, kPage_Switches, kPage_Thermostat}
        => IdleTimer \in 1 .. IDLE_TIME

\* five ticks without a tap on the thermostat page: the count is at 1 and
\* the page is still displayed
LastSecondOnThermostatPage ==
    /\ event = "tick"
    /\ Page = kPage_Thermostat
    /\ idleTicks = IDLE_TIME - 1
    /\ IdleTimer = 1


====
